---- MODULE Spec2Model ----
(***************************************************************************)
(* Model of the ISC DHCP -> Kea DHCP migration tool:                       *)
(*   src/src/cidr.ts      SubnetMatcher                                    *)
(*   src/src/migrator.ts  DHCPMigrator                                     *)
(*   src/src/parser.ts    ConfigParser.injectReservations                  *)
(*                                                                         *)
(* Text that the code parses (addresses, masks, MACs) is a sequence of     *)
(* one-character strings, so validation and conversion are computed the    *)
(* way the code computes them.  Text that the code only tests for          *)
(* emptiness or copies (uuid, hostname, description) is a TLA+ string.     *)
(* A 32-bit address is kept as its four octets (most significant first);   *)
(* unsigned comparison of addresses is lexicographic comparison of octets. *)
(* A value of type "string | null" is <<>> for null and <<s>> for s.       *)
(***************************************************************************)
EXTENDS Integers, Sequences, FiniteSets, TLC

VARIABLES
    pc,              \* position of the caller: "new", "ready", "validated", "migrating", ...
    subnetsIn,       \* argument of the SubnetMatcher constructor
    subnets,         \* SubnetMatcher.subnets: Map uuid -> range, in insertion order
    subnetMetadata,  \* SubnetMatcher.subnetMetadata: Map uuid -> Subnet, in insertion order
    lastFind,        \* last findSubnetForIP call: <<>> or <<[ip, id]>>
    staticMappings,  \* argument of migrate
    i,               \* migrate's loop index (1-based)
    reservations,    \* migrate's local arrays
    unmatchedIPs,
    warnings,
    errors,
    uuidCounter,     \* number of identifiers randomUUID has handed out
    result,          \* value returned by migrate: <<>> or <<MigrationResult>>
    validation,      \* value returned by validateMigration: <<>> or <<[valid, issues]>>
    outputDoc,       \* reservation entries written by injectReservations: <<>> or <<list>>
    netmaskIn,       \* pure-function inputs and outputs (netmaskToCIDR, buildCIDR)
    baseIn,
    prefixOut,
    cidrOut,
    stats,           \* value returned by getStats: <<>> or <<MigrationStats>>
    report,          \* value returned by generateReport: <<>> or <<report>>
    macIn,           \* argument and value of isValidMAC: <<>> or <<mac>>, <<>> or <<boolean>>
    macOut,
    argv,            \* Bun.argv.slice(2)
    config,          \* value returned by parseArgs: <<>> for null, <<MigrationConfig>>
    inputFile,       \* the input file: [exists, text]
    written,         \* the calls of Bun.write so far, each [file, reservations]
    exitCode,        \* argument of process.exit: <<>> while running, <<code>>
    xmlContent,      \* ConfigParser: the parsed input document
    parsedSubnets,   \* value returned by parseSubnets: <<>> or <<list>>
    reservationsIn,  \* argument of injectReservations
    xmlOutput        \* document built by injectReservations: <<>> or <<document>>

vars == <<pc, subnetsIn, subnets, subnetMetadata, lastFind, staticMappings, i,
          reservations, unmatchedIPs, warnings, errors, uuidCounter, result,
          validation, outputDoc, netmaskIn, baseIn, prefixOut, cidrOut,
          stats, report, macIn, macOut, argv, config, inputFile, written, exitCode,
          xmlContent, parsedSubnets, reservationsIn, xmlOutput>>

matcherVars == <<subnetsIn, subnets, subnetMetadata>>
migrateVars == <<staticMappings, i, reservations, unmatchedIPs, warnings, errors,
                 uuidCounter, result, outputDoc>>
pureVars == <<netmaskIn, baseIn, prefixOut, cidrOut>>
reportVars == <<stats, report>>
macVars == <<macIn, macOut>>
mainVars == <<argv, config, inputFile, written, exitCode>>
parserVars == <<xmlContent, parsedSubnets, reservationsIn, xmlOutput>>

----------------------------------------------------------------------------
(* Bounds of the model *)

MaxSubnets == 2
MaxMappings == 2

----------------------------------------------------------------------------
(* Characters and strings *)

DigitChars == <<"0", "1", "2", "3", "4", "5", "6", "7", "8", "9">>

IsDigit(c) == \E n \in 1..Len(DigitChars) : DigitChars[n] = c

DigitValue(c) == (CHOOSE n \in 1..Len(DigitChars) : DigitChars[n] = c) - 1

HexLetters == {"A", "B", "C", "D", "E", "F", "a", "b", "c", "d", "e", "f"}

IsHexDigit(c) == IsDigit(c) \/ c \in HexLetters

\* /^\d+$/
IsDigits(s) == Len(s) > 0 /\ \A k \in 1..Len(s) : IsDigit(s[k])

\* parseInt(s, 10) and Number(s) on a string of decimal digits
RECURSIVE ParseInt(_)
ParseInt(s) ==
    IF s = <<>> THEN 0
    ELSE ParseInt(SubSeq(s, 1, Len(s) - 1)) * 10 + DigitValue(s[Len(s)])

\* Number(s) and isNaN(Number(s)) for s empty or without white space, sign,
\* point or exponent: Number('') is 0, digits give their value, the rest is NaN
IsNaN(s) == s # <<>> /\ ~IsDigits(s)
ToNumber(s) == IF s = <<>> THEN 0 ELSE ParseInt(s)

\* String.prototype.split(sep) for a one-character separator
RECURSIVE SplitFrom(_, _, _, _)
SplitFrom(s, sep, k, piece) ==
    IF k > Len(s) THEN <<piece>>
    ELSE IF s[k] = sep THEN <<piece>> \o SplitFrom(s, sep, k + 1, <<>>)
    ELSE SplitFrom(s, sep, k + 1, Append(piece, s[k]))

Split(s, sep) == SplitFrom(s, sep, 1, <<>>)

\* `${n}` for a non-negative integer
RECURSIVE NumToStr(_)
NumToStr(n) ==
    IF n < 10 THEN <<DigitChars[n + 1]>>
    ELSE NumToStr(n \div 10) \o <<DigitChars[(n % 10) + 1]>>

RECURSIVE Pow2(_)
Pow2(n) == IF n = 0 THEN 1 ELSE 2 * Pow2(n - 1)

Min(a, b) == IF a < b THEN a ELSE b
Max(a, b) == IF a > b THEN a ELSE b

----------------------------------------------------------------------------
(* ip-num: IPv4 and IPv4CidrRange, as used by cidr.ts *)

\* new IPv4(s) does not throw: four dot-separated decimal octets, each 0..255
IsValidIPv4String(s) ==
    LET parts == Split(s, ".")
    IN  /\ Len(parts) = 4
        /\ \A k \in 1..4 :
              /\ IsDigits(parts[k])
              /\ Len(parts[k]) <= 3
              /\ ParseInt(parts[k]) <= 255

\* the value of new IPv4(s), as four octets
IPv4(s) == LET parts == Split(s, ".") IN [k \in 1..4 |-> ParseInt(parts[k])]

\* unsigned comparison a <= b of two addresses
RECURSIVE LeqFrom(_, _, _)
LeqFrom(a, b, k) ==
    IF k > 4 THEN TRUE
    ELSE IF a[k] < b[k] THEN TRUE
    ELSE IF a[k] > b[k] THEN FALSE
    ELSE LeqFrom(a, b, k + 1)

IsLessThanOrEquals(a, b) == LeqFrom(a, b, 1)

\* number of host bits of a /prefix range that fall into octet k
HostBits(prefix, k) == Min(8, Max(0, 8 * k - prefix))

\* IPv4CidrRange.fromCidr(`${subnet}/${prefix}`)
FromCidr(subnet, prefix) == [ipv4 |-> IPv4(subnet), prefix |-> prefix]

\* IPv4CidrRange.getFirst(): address AND mask
GetFirst(range) ==
    [k \in 1..4 |->
        range.ipv4[k] - (range.ipv4[k] % Pow2(HostBits(range.prefix, k)))]

\* IPv4CidrRange.getLast(): address OR inverted mask
GetLast(range) ==
    LET first == GetFirst(range)
    IN  [k \in 1..4 |-> first[k] + Pow2(HostBits(range.prefix, k)) - 1]

\* Contains with the last address of the range left out
ContainsBelowLast(range, ip) ==
    /\ IsLessThanOrEquals(GetFirst(range), ip)
    /\ IsLessThanOrEquals(ip, GetLast(range))
    /\ ip # GetLast(range)

\* IPv4CidrRange.contains(ip)
Contains(range, ip) ==
    /\ IsLessThanOrEquals(GetFirst(range), ip)
    /\ IsLessThanOrEquals(ip, GetLast(range))

----------------------------------------------------------------------------
(* SubnetMatcher (cidr.ts) *)

\* octet.toString(2).padStart(8, '0'), as a sequence of bits
ToBinary8(octet) == [b \in 1..8 |-> (octet \div Pow2(8 - b)) % 2]

\* binary.match(/^1*/)[0].length
RECURSIVE LeadingOnes(_)
LeadingOnes(bits) ==
    IF bits = <<>> \/ bits[1] # 1 THEN 0
    ELSE 1 + LeadingOnes(SubSeq(bits, 2, Len(bits)))

\* netmaskToCIDR without the comparison against the contiguous pattern
netmaskToCIDRAnyPattern(netmask) ==
    LET parts  == Split(netmask, ".")
        octets == [k \in 1..Len(parts) |-> ToNumber(parts[k])]
    IN  IF Len(parts) # 4 THEN <<>>
        ELSE IF \E k \in 1..4 : IsNaN(parts[k]) \/ octets[k] > 255 THEN <<>>
        ELSE <<LeadingOnes(ToBinary8(octets[1]) \o ToBinary8(octets[2])
                              \o ToBinary8(octets[3]) \o ToBinary8(octets[4]))>>

\* SubnetMatcher.netmaskToCIDR: <<>> for null, <<ones>> otherwise
netmaskToCIDR(netmask) ==
    LET parts  == Split(netmask, ".")
        octets == [k \in 1..Len(parts) |-> ToNumber(parts[k])]
    IN  IF Len(parts) # 4 THEN <<>>
        ELSE IF \E k \in 1..4 : IsNaN(parts[k]) \/ octets[k] > 255 THEN <<>>
        ELSE LET binary   == ToBinary8(octets[1]) \o ToBinary8(octets[2])
                               \o ToBinary8(octets[3]) \o ToBinary8(octets[4])
                 ones     == LeadingOnes(binary)
                 expected == [b \in 1..32 |-> IF b <= ones THEN 1 ELSE 0]
             IN  IF binary # expected THEN <<>> ELSE <<ones>>

\* /^\d{1,3}\.\d{1,3}\.\d{1,3}\.\d{1,3}$/
IsDottedQuadSyntax(s) ==
    LET parts == Split(s, ".")
    IN  /\ Len(parts) = 4
        /\ \A k \in 1..4 : IsDigits(parts[k]) /\ Len(parts[k]) <= 3

\* SubnetMatcher.buildCIDR: <<>> for null, <<range>> otherwise
buildCIDR(subnet, netmask) ==
    IF ~IsValidIPv4String(subnet) THEN <<>>
    ELSE IF IsDigits(netmask)
         THEN LET prefix == ParseInt(netmask)
              IN  IF prefix < 0 \/ prefix > 32 THEN <<>>
                  ELSE <<FromCidr(subnet, prefix)>>
    ELSE IF IsDottedQuadSyntax(netmask)
         THEN LET prefixLength == netmaskToCIDR(netmask)
              IN  IF prefixLength = <<>> THEN <<>>
                  ELSE <<FromCidr(subnet, prefixLength[1])>>
    ELSE <<>>

\* Map.prototype.set on a map kept as a sequence of [key, value] entries in
\* insertion order: an existing key keeps its position and gets the new value
MapSet(map, key, value) ==
    IF \E k \in 1..Len(map) : map[k].key = key
    THEN [k \in 1..Len(map) |->
             IF map[k].key = key THEN [key |-> key, value |-> value] ELSE map[k]]
    ELSE Append(map, [key |-> key, value |-> value])

\* Map.prototype.get: <<>> for undefined
MapGet(map, key) ==
    IF \E k \in 1..Len(map) : map[k].key = key
    THEN <<map[CHOOSE k \in 1..Len(map) : map[k].key = key].value>>
    ELSE <<>>

\* buildSubnetMap leaving the loop at the first record it cannot use
RECURSIVE buildSubnetMapUntilFailure(_, _)
buildSubnetMapUntilFailure(list, n) ==
    IF n = 0 THEN [subnets |-> <<>>, subnetMetadata |-> <<>>]
    ELSE LET before == buildSubnetMapUntilFailure(list, n - 1)
             subnet == list[n]
             cidr   == buildCIDR(subnet.subnet, subnet.netmask)
         IN  IF cidr # <<>> /\ \A k \in 1..(n - 1) : buildCIDR(list[k].subnet, list[k].netmask) # <<>>
             THEN [subnets        |-> MapSet(before.subnets, subnet.uuid, cidr[1]),
                   subnetMetadata |-> MapSet(before.subnetMetadata, subnet.uuid, subnet)]
             ELSE before

\* SubnetMatcher.buildSubnetMap: the two maps after the loop over the first n records
RECURSIVE buildSubnetMap(_, _)
buildSubnetMap(list, n) ==
    IF n = 0 THEN [subnets |-> <<>>, subnetMetadata |-> <<>>]
    ELSE LET before == buildSubnetMap(list, n - 1)
             subnet == list[n]
             cidr   == buildCIDR(subnet.subnet, subnet.netmask)
         IN  IF cidr # <<>>
             THEN [subnets        |-> MapSet(before.subnets, subnet.uuid, cidr[1]),
                   subnetMetadata |-> MapSet(before.subnetMetadata, subnet.uuid, subnet)]
             ELSE before

\* the loop of findSubnetForIP returning the first key without testing the range
FindFromFirstKey(map, ip, k) == IF k > Len(map) THEN <<>> ELSE <<map[k].key>>

\* SubnetMatcher.findSubnetForIP on a given map of ranges
RECURSIVE FindFrom(_, _, _)
FindFrom(map, ip, k) ==
    IF k > Len(map) THEN <<>>
    ELSE IF Contains(map[k].value, ip) THEN <<map[k].key>>
    ELSE FindFrom(map, ip, k + 1)

findSubnetForIPIn(map, ipAddress) ==
    IF ~IsValidIPv4String(ipAddress) THEN <<>>
    ELSE FindFrom(map, IPv4(ipAddress), 1)

findSubnetForIP(ipAddress) == findSubnetForIPIn(subnets, ipAddress)

\* SubnetMatcher.getSubnetInfo: this.subnetMetadata.get(uuid) || null
getSubnetInfo(uuid) == MapGet(subnetMetadata, uuid)

\* SubnetMatcher.getAllSubnets
getAllSubnets == [k \in 1..Len(subnetMetadata) |-> subnetMetadata[k].value]

\* SubnetMatcher.getCIDRRange
getCIDRRange(uuid) == MapGet(subnets, uuid)

\* SubnetMatcher.isValidIP
isValidIP(ipAddress) == IsValidIPv4String(ipAddress)

----------------------------------------------------------------------------
(* DHCPMigrator (migrator.ts) *)

\* Has testing the presence of the field, not its truthiness
HasField(rec, field) == field \in DOMAIN rec

\* truthiness of an optional string field of a record: present and not ''
Has(rec, field) == field \in DOMAIN rec /\ rec[field] # ""

\* truthiness of a value of type string | null
IsTruthy(opt) == opt # <<>> /\ opt[1] # ""

\* /^([0-9A-Fa-f]{2}[:-]){5}([0-9A-Fa-f]{2})$/
MatchesSeparatedMAC(mac) ==
    /\ Len(mac) = 17
    /\ \A k \in 1..17 :
          IF k % 3 = 0 THEN mac[k] \in {":", "-"} ELSE IsHexDigit(mac[k])

\* /^[0-9A-Fa-f]{12}$/
MatchesBareMAC(mac) == Len(mac) = 12 /\ \A k \in 1..12 : IsHexDigit(mac[k])

\* DHCPMigrator.isValidMAC
isValidMAC(mac) == MatchesSeparatedMAC(mac) \/ MatchesBareMAC(mac)

\* the diagnostics, as the template and the values put into it
MissingFieldsWarning(index, mapping) ==
    [text |-> "Skipping mapping: Missing required fields", index |-> index,
     mac |-> mapping.mac, ip |-> mapping.ipaddr]

InvalidMACWarning(mapping) ==
    [text |-> "Invalid MAC address format", mac |-> mapping.mac, ip |-> mapping.ipaddr]

InvalidIPError(mapping) ==
    [text |-> "Invalid IP address", ip |-> mapping.ipaddr, mac |-> mapping.mac]

NoSubnetWarning(mapping) ==
    [text |-> "No subnet found for IP", ip |-> mapping.ipaddr, mac |-> mapping.mac,
     hostname |-> IF Has(mapping, "hostname") THEN mapping.hostname ELSE ""]

\* BuildReservation with descr taken before description
BuildReservationDescrFirst(uuid, subnetUUID, mapping) ==
    LET base == [uuid |-> uuid, subnet |-> subnetUUID,
                 hw_address |-> mapping.mac, ip_address |-> mapping.ipaddr]
        withHostname ==
            IF Has(mapping, "hostname")
            THEN [hostname |-> mapping.hostname] @@ base
            ELSE base
    IN  IF Has(mapping, "description") \/ Has(mapping, "descr")
        THEN [description |-> IF Has(mapping, "descr")
                              THEN mapping.descr ELSE mapping.description] @@ withHostname
        ELSE withHostname

\* the reservation built for a mapping (migrator.ts 72-84)
BuildReservation(uuid, subnetUUID, mapping) ==
    LET base == [uuid |-> uuid, subnet |-> subnetUUID,
                 hw_address |-> mapping.mac, ip_address |-> mapping.ipaddr]
        withHostname ==
            IF Has(mapping, "hostname")
            THEN [hostname |-> mapping.hostname] @@ base
            ELSE base
    IN  IF Has(mapping, "description") \/ Has(mapping, "descr")
        THEN [description |-> IF Has(mapping, "description")
                              THEN mapping.description ELSE mapping.descr] @@ withHostname
        ELSE withHostname

\* Branch with the IP check made before the MAC check
BranchIPBeforeMAC(mapping) ==
    IF mapping.mac = <<>> \/ mapping.ipaddr = <<>> THEN "missing"
    ELSE IF ~isValidIP(mapping.ipaddr) THEN "invalidIP"
    ELSE IF ~isValidMAC(mapping.mac) THEN "invalidMAC"
    ELSE IF ~IsTruthy(findSubnetForIP(mapping.ipaddr)) THEN "noSubnet"
    ELSE "reservation"

\* which branch of the loop body a mapping takes (migrator.ts 33, 42, 51, 62)
Branch(mapping) ==
    IF mapping.mac = <<>> \/ mapping.ipaddr = <<>> THEN "missing"
    ELSE IF ~isValidMAC(mapping.mac) THEN "invalidMAC"
    ELSE IF ~isValidIP(mapping.ipaddr) THEN "invalidIP"
    ELSE IF ~IsTruthy(findSubnetForIP(mapping.ipaddr)) THEN "noSubnet"
    ELSE "reservation"

\* warnings.push, errors.push, unmatchedIPs.push, reservations.push on the arrays st
PushWarning(st, warning) == [st EXCEPT !.warnings = Append(@, warning)]
PushError(st, error) == [st EXCEPT !.errors = Append(@, error)]

\* PushUnmatched recording the address twice
PushUnmatchedTwice(st, ip) == [st EXCEPT !.unmatchedIPs = Append(Append(@, ip), ip)]

PushUnmatched(st, ip) == [st EXCEPT !.unmatchedIPs = Append(@, ip)]

\* PushReservation putting the reservation at the front (unshift)
UnshiftReservation(st, reservation) ==
    [st EXCEPT !.uuidCounter = @ + 1, !.reservations = <<reservation>> \o @]

PushReservation(st, reservation) ==
    [st EXCEPT !.uuidCounter = @ + 1, !.reservations = Append(@, reservation)]

\* MigrateOne leaving the rest of the batch alone once an error is recorded
MigrateOneAbortingOnError(st, index, mapping) ==
    LET branch == Branch(mapping)
    IN  IF st.errors # <<>>
        THEN st
        ELSE IF branch = "missing"
        THEN PushWarning(st, MissingFieldsWarning(index, mapping))
        ELSE IF branch = "invalidMAC"
        THEN PushWarning(st, InvalidMACWarning(mapping))
        ELSE IF branch = "invalidIP"
        THEN PushError(st, InvalidIPError(mapping))
        ELSE IF branch = "noSubnet"
        THEN PushWarning(PushUnmatched(st, mapping.ipaddr), NoSubnetWarning(mapping))
        ELSE PushReservation(st, BuildReservation(st.uuidCounter + 1,
                                                  findSubnetForIP(mapping.ipaddr)[1],
                                                  mapping))

\* one pass of the loop body of migrate for mapping number index: the arrays afterwards
MigrateOne(st, index, mapping) ==
    LET branch == Branch(mapping)
    IN  IF branch = "missing"
        THEN PushWarning(st, MissingFieldsWarning(index, mapping))
        ELSE IF branch = "invalidMAC"
        THEN PushWarning(st, InvalidMACWarning(mapping))
        ELSE IF branch = "invalidIP"
        THEN PushError(st, InvalidIPError(mapping))
        ELSE IF branch = "noSubnet"
        THEN PushWarning(PushUnmatched(st, mapping.ipaddr), NoSubnetWarning(mapping))
        ELSE PushReservation(st, BuildReservation(st.uuidCounter + 1,
                                                  findSubnetForIP(mapping.ipaddr)[1],
                                                  mapping))

\* validateMigration counting a mapping as valid when it has a mac or an ipaddr
validateMigrationEitherField(mappings) ==
    LET noSubnets  == IF Len(getAllSubnets) = 0
                      THEN <<"No Kea subnets found in configuration">> ELSE <<>>
        noMappings == IF Len(mappings) = 0
                      THEN <<"No ISC DHCP static mappings found in configuration">> ELSE <<>>
        validMappings ==
            Cardinality({k \in 1..Len(mappings) :
                            mappings[k].mac # <<>> \/ mappings[k].ipaddr # <<>>})
        noValid    == IF validMappings = 0 /\ Len(mappings) > 0
                      THEN <<"No valid static mappings found (missing MAC or IP addresses)">>
                      ELSE <<>>
        issues     == noSubnets \o noMappings \o noValid
    IN  [valid |-> Len(issues) = 0, issues |-> issues]

\* DHCPMigrator.validateMigration
validateMigration(mappings) ==
    LET noSubnets  == IF Len(getAllSubnets) = 0
                      THEN <<"No Kea subnets found in configuration">> ELSE <<>>
        noMappings == IF Len(mappings) = 0
                      THEN <<"No ISC DHCP static mappings found in configuration">> ELSE <<>>
        validMappings ==
            Cardinality({k \in 1..Len(mappings) :
                            mappings[k].mac # <<>> /\ mappings[k].ipaddr # <<>>})
        noValid    == IF validMappings = 0 /\ Len(mappings) > 0
                      THEN <<"No valid static mappings found (missing MAC or IP addresses)">>
                      ELSE <<>>
        issues     == noSubnets \o noMappings \o noValid
    IN  [valid |-> Len(issues) = 0, issues |-> issues]

\* getStats taking the failed count from the errors alone
getStatsFailedFromErrors(mappings, res) ==
    [totalStaticMappings  |-> Len(mappings),
     totalSubnets         |-> Len(getAllSubnets),
     successfulMigrations |-> res.reservationsCreated,
     failedMigrations     |-> Len(res.errors),
     unmatchedIPs         |-> Len(res.unmatchedIPs),
     warnings             |-> Len(res.warnings),
     errors               |-> Len(res.errors)]

\* DHCPMigrator.getStats
getStats(mappings, res) ==
    [totalStaticMappings  |-> Len(mappings),
     totalSubnets         |-> Len(getAllSubnets),
     successfulMigrations |-> res.reservationsCreated,
     failedMigrations     |-> Len(mappings) - res.reservationsCreated,
     unmatchedIPs         |-> Len(res.unmatchedIPs),
     warnings             |-> Len(res.warnings),
     errors               |-> Len(res.errors)]

\* one line of the 'Created Reservations' section (migrator.ts 203-208);
\* subnetInfo?.subnet and subnetInfo?.netmask are <<>> when undefined
ReportLine(index, r) ==
    LET subnetInfo == getSubnetInfo(r.subnet)
        line == [index |-> index, ip_address |-> r.ip_address, hw_address |-> r.hw_address,
                 subnet  |-> IF subnetInfo = <<>> THEN <<>> ELSE subnetInfo[1].subnet,
                 netmask |-> IF subnetInfo = <<>> THEN <<>> ELSE subnetInfo[1].netmask]
    IN  IF Has(r, "hostname") THEN [hostname |-> r.hostname] @@ line ELSE line

\* a section of the report that is left out when it has no entry
ReportSection(title, entries) ==
    IF Len(entries) > 0 THEN <<[title |-> title, entries |-> entries]>> ELSE <<>>

\* DHCPMigrator.generateReport: the sections of the text, in order
generateReport(mappings, res) ==
    <<[title |-> "Statistics:", entries |-> <<getStats(mappings, res)>>]>>
    \o ReportSection("Created Reservations:",
                     [k \in 1..Len(res.reservations) |-> ReportLine(k, res.reservations[k])])
    \o ReportSection("Unmatched IPs (no subnet found):", res.unmatchedIPs)
    \o ReportSection("Warnings:", res.warnings)
    \o ReportSection("Errors:", res.errors)

----------------------------------------------------------------------------
(* ConfigParser (parser.ts) *)

\* the entry injectReservations writes for a reservation (parser.ts 162-178)
InjectedReservation(r) ==
    LET base == [uuid |-> r.uuid, subnet |-> r.subnet,
                 hw_address |-> r.hw_address, ip_address |-> r.ip_address]
        withHostname == IF Has(r, "hostname") THEN [hostname |-> r.hostname] @@ base ELSE base
    IN  IF Has(r, "description")
        THEN [description |-> r.description] @@ withHostname
        ELSE withHostname

\* injectReservations writing the entries last to first
injectReservationsReversed(list) ==
    [k \in 1..Len(list) |-> InjectedReservation(list[Len(list) + 1 - k])]

\* ConfigParser.injectReservations: the reservation list of the output document
injectReservations(list) == [k \in 1..Len(list) |-> InjectedReservation(list[k])]

(* The document parser.parse returns (jsonObj).  A node is an element with  *)
(* child elements, [kind |-> "obj", <child name> |-> <node>, ...], an       *)
(* element with text only, [kind |-> "text", text |-> <string>] ('' for an  *)
(* empty element), or the repeated occurrences of an element,               *)
(* [kind |-> "arr", items |-> <<node, ...>>].  A <staticmap>, <subnet4> or  *)
(* <reservation> element is [kind |-> "rec", <child name> |-> <its text>,   *)
(* ...]; the uuid attribute of <subnet4> ('@_uuid') is the field attr_uuid. *)
(* Only these three elements are repeated in the documents considered.  An  *)
(* element whose children are iterated (dhcpd) lists their names in order.  *)

EmptyObject == [kind |-> "obj"]
TextNode(text) == [kind |-> "text", text |-> text]
ArrayNode(items) == [kind |-> "arr", items |-> items]

\* node[key] and node?.[key]: <<>> for undefined
Get(node, key) ==
    IF node.kind = "obj" /\ key \in DOMAIN node /\ key \notin {"kind", "order"}
    THEN <<node[key]>> ELSE <<>>

GetOpt(opt, key) == IF opt = <<>> THEN <<>> ELSE Get(opt[1], key)

\* truthiness of a node or undefined: only undefined and '' are falsy
IsTruthyNode(opt) == opt # <<>> /\ ~(opt[1].kind = "text" /\ opt[1].text = "")

\* a || b
Or(a, b) == IF IsTruthyNode(a) THEN a ELSE b

\* truthiness of a field holding text the code parses (a sequence of characters)
HasText(rec, field) == field \in DOMAIN rec /\ rec[field] # <<>>

\* Array.isArray(x) ? x : [x]
AsArray(node) == IF node.kind = "arr" THEN node.items ELSE <<node>>

\* parseStaticMappings, lines 53-59: the mapping pushed for a <staticmap>
ParsedMapping(map) ==
    LET base == [mac    |-> IF HasText(map, "mac") THEN map.mac ELSE <<>>,
                 ipaddr |-> IF HasText(map, "ipaddr") THEN map.ipaddr ELSE <<>>]
        withHostname == IF Has(map, "hostname") THEN [hostname |-> map.hostname] @@ base
                        ELSE base
    IN  IF Has(map, "descr") THEN [description |-> map.descr] @@ withHostname
        ELSE IF Has(map, "description") THEN [description |-> map.description] @@ withHostname
        ELSE withHostname

\* parseStaticMappings, lines 51-61: the loop over the maps of one interface
RECURSIVE ParsedMappingsOf(_, _)
ParsedMappingsOf(maps, n) ==
    IF n = 0 THEN <<>>
    ELSE IF maps[n].kind = "rec"
         THEN Append(ParsedMappingsOf(maps, n - 1), ParsedMapping(maps[n]))
         ELSE ParsedMappingsOf(maps, n - 1)

\* parseStaticMappings, lines 42-62: the loop over the interfaces
RECURSIVE ParsedInterfaces(_, _)
ParsedInterfaces(dhcpd, n) ==
    IF n = 0 THEN <<>>
    ELSE LET iface == dhcpd[dhcpd.order[n]]
         IN  IF iface.kind = "text" \/ ~IsTruthyNode(Get(iface, "staticmap"))
             THEN ParsedInterfaces(dhcpd, n - 1)
             ELSE ParsedInterfaces(dhcpd, n - 1)
                      \o LET maps == AsArray(iface.staticmap)
                         IN  ParsedMappingsOf(maps, Len(maps))

\* ConfigParser.parseStaticMappings on the parsed document
parseStaticMappings(jsonObj) ==
    LET dhcpd == Or(GetOpt(Get(jsonObj, "opnsense"), "dhcpd"), Get(jsonObj, "dhcpd"))
    IN  IF ~IsTruthyNode(dhcpd) \/ dhcpd[1].kind # "obj" THEN <<>>
        ELSE ParsedInterfaces(dhcpd[1], Len(dhcpd[1].order))

\* subnet['@_uuid'] || subnet.uuid
SubnetUUID(subnet) ==
    IF Has(subnet, "attr_uuid") THEN subnet.attr_uuid
    ELSE IF Has(subnet, "uuid") THEN subnet.uuid ELSE ""

\* parseSubnets leaving the loop at the first element it skips
RECURSIVE ParsedSubnetsUntilSkip(_, _)
ParsedSubnetsUntilSkip(subnetArray, n) ==
    IF n = 0 THEN <<>>
    ELSE LET subnet == subnetArray[n]
             before == ParsedSubnetsUntilSkip(subnetArray, n - 1)
             usable(e) == /\ e.kind = "rec" /\ HasText(e, "subnet")
                          /\ SubnetUUID(e) # "" /\ Len(Split(e.subnet, "/")) = 2
         IN  IF usable(subnet) /\ \A k \in 1..(n - 1) : usable(subnetArray[k])
             THEN LET parts == Split(subnet.subnet, "/")
                  IN  Append(before, [uuid |-> SubnetUUID(subnet),
                                      subnet |-> parts[1], netmask |-> parts[2]])
             ELSE before

\* parseSubnets, lines 101-123: the loop over the first n <subnet4> elements
RECURSIVE ParsedSubnets(_, _)
ParsedSubnets(subnetArray, n) ==
    IF n = 0 THEN <<>>
    ELSE LET subnet == subnetArray[n]
             before == ParsedSubnets(subnetArray, n - 1)
         IN  IF subnet.kind = "rec" /\ HasText(subnet, "subnet")
             THEN IF SubnetUUID(subnet) = "" THEN before
                  ELSE LET parts == Split(subnet.subnet, "/")
                       IN  IF Len(parts) = 2
                           THEN Append(before, [uuid |-> SubnetUUID(subnet),
                                                subnet |-> parts[1], netmask |-> parts[2]])
                           ELSE before
             ELSE before

\* ConfigParser.parseSubnets on the parsed document
parseSubnets(jsonObj) ==
    LET root     == Or(Get(jsonObj, "opnsense"), <<jsonObj>>)
        opnSense == Or(Or(GetOpt(root, "OPNsense"), GetOpt(root, "opnsense")), root)
        kea      == Or(Or(GetOpt(opnSense, "Kea"), GetOpt(opnSense, "kea")),
                       GetOpt(opnSense, "KEA"))
        dhcp4    == Or(Or(GetOpt(kea, "dhcp4"), GetOpt(kea, "Dhcp4")), GetOpt(kea, "DHCP4"))
        subnetsSection == Or(GetOpt(dhcp4, "subnets"), GetOpt(dhcp4, "Subnets"))
        subnet4  == GetOpt(subnetsSection, "subnet4")
    IN  IF ~IsTruthyNode(kea) THEN <<>>
        ELSE IF ~IsTruthyNode(dhcp4) THEN <<>>
        ELSE IF ~IsTruthyNode(subnetsSection) THEN <<>>
        ELSE IF ~IsTruthyNode(subnet4) THEN <<>>
        ELSE LET subnetArray == AsArray(subnet4[1])
             IN  ParsedSubnets(subnetArray, Len(subnetArray))

\* ConfigParser.parseConfig
parseConfig(jsonObj) ==
    [staticMappings |-> parseStaticMappings(jsonObj), subnets |-> parseSubnets(jsonObj)]

\* the objects of a list as elements of the document
Elements(list) == [k \in 1..Len(list) |-> [kind |-> "rec"] @@ list[k]]

\* node[key] = child
WithChild(node, key, child) ==
    [k \in DOMAIN node \cup {key} |-> IF k = key THEN child ELSE node[k]]

\* `if (!node[key]) { node[key] = {} }` followed by a read of node[key]
ChildOrEmpty(node, key) ==
    IF IsTruthyNode(Get(node, key)) THEN node[key] ELSE EmptyObject

\* injectReservations adding the list to the entries the document already has
injectReservationsAppending(jsonObj, list) ==
    LET root     == ChildOrEmpty(jsonObj, "opnsense")
        opnSense == ChildOrEmpty(root, "OPNsense")
        kea      == ChildOrEmpty(opnSense, "Kea")
        dhcp4    == ChildOrEmpty(kea, "dhcp4")
        section  == ChildOrEmpty(dhcp4, "reservations")
        present  == IF IsTruthyNode(Get(section, "reservation"))
                    THEN AsArray(section.reservation) ELSE <<>>
    IN  IF root.kind # "obj" THEN <<>>
        ELSE IF opnSense.kind # "obj" THEN <<>>
        ELSE IF kea.kind # "obj" THEN <<>>
        ELSE IF dhcp4.kind # "obj" THEN <<>>
        ELSE IF section.kind # "obj" THEN <<>>
        ELSE <<WithChild(jsonObj, "opnsense",
               WithChild(root, "OPNsense",
               WithChild(opnSense, "Kea",
               WithChild(kea, "dhcp4",
               WithChild(dhcp4, "reservations",
               WithChild(section, "reservation",
                         ArrayNode(present \o Elements(injectReservations(list)))))))))>>

\* ConfigParser.injectReservations, lines 136-178: the document handed to the
\* builder, <<>> when a section on the path holds text, so that setting a
\* property on it throws
injectReservationsInto(jsonObj, list) ==
    LET root     == ChildOrEmpty(jsonObj, "opnsense")
        opnSense == ChildOrEmpty(root, "OPNsense")
        kea      == ChildOrEmpty(opnSense, "Kea")
        dhcp4    == ChildOrEmpty(kea, "dhcp4")
        section  == ChildOrEmpty(dhcp4, "reservations")
    IN  IF root.kind # "obj" THEN <<>>
        ELSE IF opnSense.kind # "obj" THEN <<>>
        ELSE IF kea.kind # "obj" THEN <<>>
        ELSE IF dhcp4.kind # "obj" THEN <<>>
        ELSE IF section.kind # "obj" THEN <<>>
        ELSE <<WithChild(jsonObj, "opnsense",
               WithChild(root, "OPNsense",
               WithChild(opnSense, "Kea",
               WithChild(kea, "dhcp4",
               WithChild(dhcp4, "reservations",
               WithChild(section, "reservation",
                         ArrayNode(Elements(injectReservations(list)))))))))>>

\* the names of the child elements of a node
ChildNames(node) == DOMAIN node \ {"kind", "order"}

\* parser.parse(builder.build(node)): an element repeated once comes back as
\* the element itself, an element repeated zero times is not there, and an
\* element left without children comes back as an empty element
RECURSIVE Reparse(_)
Reparse(node) ==
    IF node.kind \in {"text", "rec"} THEN <<node>>
    ELSE IF node.kind = "arr"
    THEN IF Len(node.items) = 0 THEN <<>>
         ELSE IF Len(node.items) = 1 THEN <<node.items[1]>>
         ELSE <<node>>
    ELSE LET kept == {k \in ChildNames(node) : Reparse(node[k]) # <<>>}
         IN  IF kept = {} THEN <<TextNode("")>>
             ELSE <<[k \in kept \cup (DOMAIN node \ ChildNames(node)) |->
                        IF k \in kept THEN Reparse(node[k])[1] ELSE node[k]]>>

----------------------------------------------------------------------------
(* Command line (index.ts) *)

\* the options parseArgs knows, and the default output file
Arg_d == <<"-", "d">>
Arg_dry_run == <<"-", "-", "d", "r", "y", "-", "r", "u", "n">>
Arg_v == <<"-", "v">>
Arg_verbose == <<"-", "-", "v", "e", "r", "b", "o", "s", "e">>
Arg_h == <<"-", "h">>
Arg_help == <<"-", "-", "h", "e", "l", "p">>
DefaultOutputFile == <<"n", "e", "w", "_", "c", "o", "n", "f", "i", "g", ".", "x", "m", "l">>

\* arg.startsWith('-')
StartsWithDash(arg) == Len(arg) > 0 /\ arg[1] = "-"

\* args.includes(arg)
Includes(args, arg) == \E k \in 1..Len(args) : args[k] = arg

\* parseArgs, lines 54-66: the loop from argument k on; <<>> when an unknown
\* option is met, else the flags and the other arguments in order
RECURSIVE ParseArgsFrom(_, _, _)
ParseArgsFrom(args, k, acc) ==
    IF k > Len(args) THEN <<acc>>
    ELSE IF args[k] = Arg_d \/ args[k] = Arg_dry_run
    THEN ParseArgsFrom(args, k + 1, [acc EXCEPT !.dryRun = TRUE])
    ELSE IF args[k] = Arg_v \/ args[k] = Arg_verbose
    THEN ParseArgsFrom(args, k + 1, [acc EXCEPT !.verbose = TRUE])
    ELSE IF ~StartsWithDash(args[k])
    THEN ParseArgsFrom(args, k + 1, [acc EXCEPT !.nonFlagArgs = Append(@, args[k])])
    ELSE <<>>

\* parseArgs: <<>> for null, else <<MigrationConfig>>
parseArgs(args) ==
    IF Len(args) = 0 \/ Includes(args, Arg_h) \/ Includes(args, Arg_help) THEN <<>>
    ELSE LET scanned == ParseArgsFrom(args, 1, [dryRun |-> FALSE, verbose |-> FALSE,
                                                nonFlagArgs |-> <<>>])
         IN  IF scanned = <<>> THEN <<>>
             ELSE IF Len(scanned[1].nonFlagArgs) < 1 THEN <<>>
             ELSE <<[inputFile  |-> scanned[1].nonFlagArgs[1],
                     outputFile |-> IF Len(scanned[1].nonFlagArgs) > 1
                                    THEN scanned[1].nonFlagArgs[2] ELSE DefaultOutputFile,
                     dryRun     |-> scanned[1].dryRun,
                     verbose    |-> scanned[1].verbose]>>

(* The text of the input file is a sequence of characters when it is empty  *)
(* or blank, [kind |-> "chars", text |-> <<...>>]; a text on which          *)
(* parser.parse throws, [kind |-> "malformed"]; or the document that        *)
(* parser.parse returns for it.                                             *)
\* the characters String.prototype.trim strips: the white space and the line
\* terminators of ECMAScript.  A character that cannot be written in a string
\* of this module is named by its code point and stands for that one character.
Whitespace ==
    { " ", "\t", "\n", "\r", "\f", "U+000B", "U+00A0", "U+FEFF", "U+1680",
      "U+2000", "U+2001", "U+2002", "U+2003", "U+2004", "U+2005", "U+2006",
      "U+2007", "U+2008", "U+2009", "U+200A", "U+2028", "U+2029", "U+202F",
      "U+205F", "U+3000" }

\* !xmlContent || xmlContent.trim().length === 0
IsEmptyText(text) ==
    text.kind = "chars" /\ \A k \in 1..Len(text.text) : text.text[k] \in Whitespace

\* ConfigParser.validateXML
validateXML(text) == [valid |-> text.kind # "malformed"]

----------------------------------------------------------------------------
(* Input texts, written character by character *)

Empty == <<>>
IP_10_0_0_0 == <<"1", "0", ".", "0", ".", "0", ".", "0">>
IP_10_0_0_5 == <<"1", "0", ".", "0", ".", "0", ".", "5">>
IP_10_0_0_77 == <<"1", "0", ".", "0", ".", "0", ".", "7", "7">>
IP_10_0_0_255 == <<"1", "0", ".", "0", ".", "0", ".", "2", "5", "5">>
IP_10_0_1_0 == <<"1", "0", ".", "0", ".", "1", ".", "0">>
IP_10_255_255_255 == <<"1", "0", ".", "2", "5", "5", ".", "2", "5", "5", ".", "2", "5", "5">>
IP_11_0_0_0 == <<"1", "1", ".", "0", ".", "0", ".", "0">>
IP_9_255_255_255 == <<"9", ".", "2", "5", "5", ".", "2", "5", "5", ".", "2", "5", "5">>
IP_192_168_1_0 == <<"1", "9", "2", ".", "1", "6", "8", ".", "1", ".", "0">>
IP_192_168_1_100 == <<"1", "9", "2", ".", "1", "6", "8", ".", "1", ".", "1", "0", "0">>
IP_192_168_1_101 == <<"1", "9", "2", ".", "1", "6", "8", ".", "1", ".", "1", "0", "1">>
IP_192_168_1_255 == <<"1", "9", "2", ".", "1", "6", "8", ".", "1", ".", "2", "5", "5">>
IP_192_168_2_0 == <<"1", "9", "2", ".", "1", "6", "8", ".", "2", ".", "0">>
IP_172_16_0_1 == <<"1", "7", "2", ".", "1", "6", ".", "0", ".", "1">>
IP_0_0_0_0 == <<"0", ".", "0", ".", "0", ".", "0">>
IP_255_255_255_255 == <<"2", "5", "5", ".", "2", "5", "5", ".", "2", "5", "5", ".", "2", "5", "5">>
BadIP_256_1_1_1 == <<"2", "5", "6", ".", "1", ".", "1", ".", "1">>
BadIP_192_168_1 == <<"1", "9", "2", ".", "1", "6", "8", ".", "1">>
BadIP_text == <<"n", "o", "t", "-", "a", "n", "-", "i", "p">>
Mask_8 == <<"8">>
Mask_24 == <<"2", "4">>
Mask_0 == <<"0">>
Mask_32 == <<"3", "2">>
Mask_33 == <<"3", "3">>
Mask_024 == <<"0", "2", "4">>
Mask_text == <<"2", "4", "a">>
Mask_255_0_0_0 == <<"2", "5", "5", ".", "0", ".", "0", ".", "0">>
Mask_255_255_255_0 == <<"2", "5", "5", ".", "2", "5", "5", ".", "2", "5", "5", ".", "0">>
Mask_255_0_255_0 == <<"2", "5", "5", ".", "0", ".", "2", "5", "5", ".", "0">>
Mask_256_0_0_0 == <<"2", "5", "6", ".", "0", ".", "0", ".", "0">>
MAC_colon == <<"A", "A", ":", "B", "B", ":", "C", "C", ":", "D", "D", ":", "E", "E", ":", "F", "F">>
MAC_dash == <<"0", "0", "-", "1", "1", "-", "2", "2", "-", "3", "3", "-", "4", "4", "-", "5", "5">>
MAC_bare == <<"0", "0", "1", "1", "2", "2", "3", "3", "4", "4", "5", "5">>
MAC_lower == <<"a", "a", ":", "b", "b", ":", "c", "c", ":", "d", "d", ":", "e", "e", ":", "0", "f">>
BadMAC_short == <<"0", "0", ":", "1", "1", ":", "2", "2", ":", "3", "3", ":", "4", "4">>
BadMAC_nonhex == <<"Z", "Z", ":", "1", "1", ":", "2", "2", ":", "3", "3", ":", "4", "4", ":", "5", "5">>

----------------------------------------------------------------------------
(* Inputs *)

\* all lists over S of length at most n
ListsOver(S, n) == UNION {[1..k -> S] : k \in 0..n}

Subnet(uuid, subnet, netmask) == [uuid |-> uuid, subnet |-> subnet, netmask |-> netmask]

\* subnet records given to the matcher when the matcher itself is examined:
\* nested and overlapping ranges, a base that is not a network address, /0 and
\* /32, a dotted mask, a repeated uuid, an empty uuid, and records that are dropped
SubnetPool ==
    { Subnet("u1", IP_10_0_0_0, Mask_8),
      Subnet("u2", IP_10_0_0_77, Mask_24),
      Subnet("u1", IP_192_168_1_0, Mask_024),
      Subnet("u4", IP_10_0_0_5, Mask_0),
      Subnet("u5", IP_192_168_1_100, Mask_32),
      Subnet("", IP_10_0_0_0, Mask_255_0_0_0),
      Subnet("u6", IP_10_0_0_0, Mask_255_0_255_0),
      Subnet("u7", IP_10_0_0_0, Mask_33),
      Subnet("u8", BadIP_256_1_1_1, Mask_8),
      Subnet("u2", IP_10_0_0_0, Mask_text) }

\* addresses asked of findSubnetForIP: first and last address of the ranges
\* above, their outer neighbours, and texts that are no address
IPPool ==
    { IP_10_0_0_0, IP_10_0_0_255, IP_10_0_1_0, IP_10_255_255_255, IP_11_0_0_0,
      IP_9_255_255_255, IP_192_168_1_0, IP_192_168_1_100, IP_192_168_1_255,
      IP_192_168_2_0, IP_0_0_0_0, IP_255_255_255_255, BadIP_256_1_1_1, Empty }

\* addresses on which two ranges are compared
ProbeIPs == {a \in IPPool : IsValidIPv4String(a)} \cup {IP_10_0_0_77, IP_192_168_1_101}

\* subnet records of the configurations that are migrated: an empty uuid,
\* nested ranges, a repeated uuid and a record that is dropped
DeployedPool ==
    { Subnet("", IP_10_0_0_0, Mask_8),
      Subnet("u2", IP_10_0_0_77, Mask_255_255_255_0),
      Subnet("u1", IP_192_168_1_0, Mask_24),
      Subnet("u2", IP_192_168_1_0, Mask_24),
      Subnet("u3", IP_10_0_0_0, Mask_255_0_255_0) }

\* static mappings of the configurations that are migrated: one per outcome of
\* the loop body, with the optional fields absent, empty and set
MappingPool ==
    { [mac |-> MAC_colon, ipaddr |-> IP_10_0_0_5, hostname |-> "host1",
       description |-> "desc", descr |-> "old"],
      [mac |-> MAC_bare, ipaddr |-> IP_192_168_1_255, hostname |-> "",
       description |-> "", descr |-> "old"],
      [mac |-> Empty, ipaddr |-> IP_10_0_0_5, hostname |-> "host3"],
      [mac |-> MAC_dash, ipaddr |-> Empty],
      [mac |-> BadMAC_nonhex, ipaddr |-> BadIP_256_1_1_1],
      [mac |-> MAC_dash, ipaddr |-> BadIP_256_1_1_1, descr |-> ""],
      [mac |-> MAC_lower, ipaddr |-> IP_10_0_1_0] }

\* reservations handed to injectReservations by a caller other than migrate
HandMadeReservations ==
    << [uuid |-> 0, subnet |-> "u1", hw_address |-> MAC_colon, ip_address |-> IP_10_0_0_5,
        hostname |-> "", description |-> ""],
       [uuid |-> 0, subnet |-> "u1", hw_address |-> MAC_bare, ip_address |-> IP_10_0_0_5,
        hostname |-> "host", description |-> "desc"] >>

\* an element with the given children
Element(children) == children @@ EmptyObject

\* the value of a child element that occurs once for every item: the item
\* itself when there is one, the array when there are several
Occurrences(items) == IF Len(items) = 1 THEN items[1] ELSE ArrayNode(items)

\* a parent element holding the items as children of the given name, or an
\* empty element when there is no item
Holding(name, items) ==
    IF Len(items) = 0 THEN TextNode("") ELSE Element(name :> Occurrences(items))

Slash == <<"/">>

\* <subnet4> elements: uuid as attribute, uuid as child, no uuid, no slash,
\* two slashes, an empty attribute beside a uuid child with nothing after the
\* slash, and no subnet text
Subnet4Pool ==
    { [kind |-> "rec", attr_uuid |-> "u1", subnet |-> IP_10_0_0_0 \o Slash \o Mask_8],
      [kind |-> "rec", uuid |-> "u2", subnet |-> IP_192_168_1_0 \o Slash \o Mask_24],
      [kind |-> "rec", subnet |-> IP_10_0_0_0 \o Slash \o Mask_8],
      [kind |-> "rec", attr_uuid |-> "u4", subnet |-> IP_10_0_0_0],
      [kind |-> "rec", attr_uuid |-> "u5", subnet |-> IP_10_0_0_0 \o Slash \o Mask_8 \o Slash],
      [kind |-> "rec", attr_uuid |-> "", uuid |-> "u6", subnet |-> IP_10_0_0_0 \o Slash],
      [kind |-> "rec", attr_uuid |-> "u7"] }

\* a <dhcpd> section with two interfaces, the second without static mappings
DhcpdOf(maps) ==
    [kind |-> "obj", order |-> <<"lan", "opt1">>,
     lan |-> Holding("staticmap", maps), opt1 |-> Element("enable" :> TextNode("1"))]

SampleStaticmaps ==
    << [kind |-> "rec", mac |-> MAC_colon, ipaddr |-> IP_10_0_0_5, hostname |-> "host1",
        descr |-> "old", description |-> "desc"],
       [kind |-> "rec", ipaddr |-> IP_10_0_0_5, description |-> "desc"] >>

\* reservations that a document holds before injectReservations is called
OldReservations ==
    << [kind |-> "rec", uuid |-> 7, subnet |-> "u9", hw_address |-> MAC_lower,
        ip_address |-> IP_10_0_1_0],
       [kind |-> "rec", uuid |-> 8, subnet |-> "u1", hw_address |-> MAC_colon,
        ip_address |-> IP_10_0_0_5, hostname |-> "host" ] >>

\* a <dhcp4> section: <subnets> holds the elements, <reservations> is the node given
Dhcp4Of(subnet4, reservationsNode) ==
    Element(("subnets" :> Holding("subnet4", subnet4)) @@ reservationsNode)

\* the spellings of the path to <dhcp4> that parseSubnets accepts, and
\* documents that lack a section
DocumentShapes ==
    {"standard", "bare", "lower", "noKea", "emptyKea", "textKea", "noDhcp4", "mixed"}

Document(shape, maps, dhcp4) ==
    LET dhcpd == "dhcpd" :> DhcpdOf(maps)
    IN  CASE shape = "standard" ->
               Element("opnsense" :> Element(dhcpd @@
                   ("OPNsense" :> Element("Kea" :> Element("dhcp4" :> dhcp4)))))
          [] shape = "bare" ->
               Element(dhcpd @@ ("OPNsense" :> Element("Kea" :> Element("dhcp4" :> dhcp4))))
          [] shape = "lower" ->
               Element("opnsense" :> Element(dhcpd @@
                   ("kea" :> Element("Dhcp4" :> dhcp4))))
          [] shape = "noKea" ->
               Element("opnsense" :> Element(dhcpd))
          [] shape = "emptyKea" ->
               Element("opnsense" :> Element(dhcpd @@
                   ("OPNsense" :> Element("Kea" :> TextNode("")))))
          [] shape = "textKea" ->
               Element("opnsense" :> Element(dhcpd @@
                   ("OPNsense" :> Element(("Kea" :> TextNode("x"))
                                     @@ ("kea" :> Element("dhcp4" :> dhcp4))))))
          [] shape = "noDhcp4" ->
               Element("opnsense" :> Element(dhcpd @@
                   ("OPNsense" :> Element("Kea" :> Element("general" :> TextNode("1"))))))
          [] shape = "mixed" ->
               Element("opnsense" :> Element(dhcpd @@
                   ("OPNsense" :> Element(("Kea" :> Element("dhcp4" :> TextNode("")))
                                     @@ ("KEA" :> Element("DHCP4" :> dhcp4))))))

\* the <reservations> child of <dhcp4> before injection: none, an empty
\* element, one entry, two entries beside another child, and text
ReservationNodes ==
    { <<>>,
      "reservations" :> TextNode(""),
      "reservations" :> Holding("reservation", SubSeq(OldReservations, 1, 1)),
      "reservations" :> Element(("reservation" :> ArrayNode(OldReservations))
                                    @@ ("attr_persisted" :> TextNode("1"))),
      "reservations" :> TextNode("x") }

\* the documents given to the parser: every shape with every list of
\* <subnet4> elements, and the two usual shapes with every <reservations> node
\* beside at most one <subnet4> element
ParserDocuments ==
    {Document(shape, SampleStaticmaps, Dhcp4Of(list, <<>>)) :
        shape \in DocumentShapes, list \in ListsOver(Subnet4Pool, MaxSubnets)}
    \cup {Document(shape, SampleStaticmaps, Dhcp4Of(list, node)) :
            shape \in {"standard", "bare"}, list \in ListsOver(Subnet4Pool, 1),
            node \in ReservationNodes}

\* the reservation lists given to injectReservations
InjectLists ==
    { <<>>, HandMadeReservations,
      <<[uuid |-> 3, subnet |-> "u2", hw_address |-> MAC_dash, ip_address |-> IP_192_168_1_100,
         description |-> "printer"]>> }

\* command lines: no argument, help, input alone, input and output, dry run
\* in both spellings and positions, verbose, an unknown option, options
\* without input, a third file name, and the output over the input
File_config == <<"c", "o", "n", "f", "i", "g", ".", "x", "m", "l">>
File_out == <<"o", "u", "t", ".", "x", "m", "l">>
File_extra == <<"e", "x", "t", "r", "a", ".", "x", "m", "l">>
Arg_unknown == <<"-", "x">>

ArgvInputs ==
    { <<>>, <<Arg_h>>, <<File_config, Arg_help>>, <<Arg_d, Arg_h>>,
      <<File_config>>, <<File_config, File_out>>, <<File_config, File_config>>,
      <<File_config, File_out, File_extra>>,
      <<File_config, Arg_d>>, <<Arg_dry_run, File_config, File_out>>,
      <<File_config, Arg_v>>, <<File_config, File_out, Arg_verbose, Arg_d>>,
      <<File_config, Arg_unknown>>, <<Arg_d>> }

\* <staticmap> elements: one that is migrated, one with an invalid address
\* (an error), one outside every subnet and one without MAC (warnings)
MainStaticmapPool ==
    { [kind |-> "rec", mac |-> MAC_colon, ipaddr |-> IP_10_0_0_5, hostname |-> "host1"],
      [kind |-> "rec", mac |-> MAC_dash, ipaddr |-> BadIP_256_1_1_1],
      [kind |-> "rec", mac |-> MAC_bare, ipaddr |-> IP_192_168_1_255, descr |-> "old"],
      [kind |-> "rec", ipaddr |-> IP_10_0_1_0] }

MainSubnet4 == [kind |-> "rec", attr_uuid |-> "u1", subnet |-> IP_10_0_0_0 \o Slash \o Mask_8]

MainSubnetLists ==
    { <<>>, <<MainSubnet4>>,
      <<[kind |-> "rec", subnet |-> IP_192_168_1_0 \o Slash \o Mask_24], MainSubnet4>> }

MainStaticmaps ==
    << [kind |-> "rec", mac |-> MAC_colon, ipaddr |-> IP_10_0_0_5, hostname |-> "host1"],
       [kind |-> "rec", mac |-> MAC_bare, ipaddr |-> IP_192_168_1_255, descr |-> "old"] >>

\* the documents of the input file: every list of <staticmap> elements with
\* every list of subnets; a list beside every <reservations> node, with and
\* without the <opnsense> element; and a document without Kea section
MainDocuments ==
    {Document("standard", maps, Dhcp4Of(list, <<>>)) :
        maps \in ListsOver(MainStaticmapPool, MaxMappings), list \in MainSubnetLists}
    \cup {Document(shape, MainStaticmaps, Dhcp4Of(<<MainSubnet4>>, node)) :
            shape \in {"standard", "bare"}, node \in ReservationNodes}
    \cup {Document("noKea", MainStaticmaps, Dhcp4Of(<<>>, <<>>))}

\* the file named as input: missing, empty, blank (blanks and a line end, a
\* form feed alone, blanks around a form feed, a no-break space after a byte
\* order mark), not parsable, or a document
MissingFile == [exists |-> FALSE]

InputFiles ==
    { MissingFile }
    \cup {[exists |-> TRUE, text |-> text] :
            text \in { [kind |-> "chars", text |-> <<>>],
                       [kind |-> "chars", text |-> <<" ", "\n">>],
                       [kind |-> "chars", text |-> <<"\f">>],
                       [kind |-> "chars", text |-> <<" ", "\n", "\f", "\t">>],
                       [kind |-> "chars", text |-> <<"U+FEFF", "U+00A0">>],
                       [kind |-> "malformed"] } \cup MainDocuments}

\* hardware addresses for isValidMAC: six groups with every choice of colon,
\* dash or nothing between them, the first group being two hex digits, two
\* hex digits of mixed case, two letters that are not hex digits, or one
\* digit; and addresses of five and of seven groups
MacSeparators == {<<":">>, <<"-">>, <<>>}
MacFirstGroups == {<<"0", "0">>, <<"a", "F">>, <<"Z", "Z">>, <<"0">>}

MacOf(first, seps) ==
    first \o seps[1] \o <<"1", "1">> \o seps[2] \o <<"2", "2">> \o seps[3]
          \o <<"3", "3">> \o seps[4] \o <<"4", "4">> \o seps[5] \o <<"5", "5">>

MacInputs ==
    {MacOf(first, seps) : first \in MacFirstGroups, seps \in [1..5 -> MacSeparators]}
        \cup {BadMAC_short, MAC_dash \o <<"-", "6", "6">>}

\* netmask octets for netmaskToCIDR: every octet of a contiguous mask, octets
\* that break contiguity, and octets above 255
OctetSamples == {0, 128, 192, 224, 240, 248, 252, 254, 255, 1, 127, 256}

DottedQuad(a, b, c, d) ==
    NumToStr(a) \o <<".">> \o NumToStr(b) \o <<".">> \o NumToStr(c) \o <<".">> \o NumToStr(d)

NetmaskInputs ==
    {DottedQuad(a, b, c, d) : a \in OctetSamples, b \in OctetSamples,
                              c \in OctetSamples, d \in OctetSamples}

BaseInputs == {IP_10_0_0_77, BadIP_256_1_1_1}

----------------------------------------------------------------------------
(* State machine *)

NoCall == <<>>

InitMatcherState ==
    /\ subnetsIn = <<>>
    /\ subnets = <<>>
    /\ subnetMetadata = <<>>
    /\ lastFind = NoCall

InitMigrateLocals ==
    /\ i = 1
    /\ reservations = <<>>
    /\ unmatchedIPs = <<>>
    /\ warnings = <<>>
    /\ errors = <<>>
    /\ uuidCounter = 0
    /\ result = NoCall
    /\ validation = NoCall
    /\ outputDoc = NoCall

InitPureState ==
    /\ netmaskIn = <<>>
    /\ baseIn = <<>>
    /\ prefixOut = <<>>
    /\ cidrOut = <<>>

InitReportState ==
    /\ stats = <<>>
    /\ report = <<>>

InitMacState ==
    /\ macIn = <<>>
    /\ macOut = <<>>

InitMainState ==
    /\ argv = <<>>
    /\ config = <<>>
    /\ inputFile = <<>>
    /\ written = <<>>
    /\ exitCode = <<>>

InitParserState ==
    /\ xmlContent = <<>>
    /\ parsedSubnets = <<>>
    /\ reservationsIn = <<>>
    /\ xmlOutput = <<>>

\* before new SubnetMatcher(subnets) / new DHCPMigrator(subnets)
Init ==
    /\ pc = "new"
    /\ InitMatcherState
    /\ staticMappings = <<>>
    /\ InitMigrateLocals
    /\ InitPureState
    /\ InitReportState
    /\ InitMacState
    /\ InitMainState
    /\ InitParserState

\* new SubnetMatcher(list): the field initialisers, then buildSubnetMap(list)
Construct(list) ==
    /\ pc = "new"
    /\ subnetsIn' = list
    /\ LET built == buildSubnetMap(list, Len(list))
       IN  /\ subnets' = built.subnets
           /\ subnetMetadata' = built.subnetMetadata
    /\ pc' = "ready"
    /\ UNCHANGED <<lastFind, validation>>
    /\ UNCHANGED migrateVars
    /\ UNCHANGED pureVars
    /\ UNCHANGED <<reportVars, macVars, mainVars, parserVars>>

\* a call matcher.findSubnetForIP(ipAddress) by the caller
FindSubnetForIP(ipAddress) ==
    /\ pc = "ready"
    /\ lastFind' = <<[ip |-> ipAddress, id |-> findSubnetForIP(ipAddress)]>>
    /\ UNCHANGED <<pc, validation>>
    /\ UNCHANGED matcherVars
    /\ UNCHANGED migrateVars
    /\ UNCHANGED pureVars
    /\ UNCHANGED <<reportVars, macVars, mainVars, parserVars>>

NextMatcher ==
    \/ \E list \in ListsOver(SubnetPool, MaxSubnets) : Construct(list)
    \/ \E ipAddress \in IPPool : FindSubnetForIP(ipAddress)

\* the matcher on its own: construction from any list, then queries
SpecMatcher == Init /\ [][NextMatcher]_vars

\* netmaskToCIDR and buildCIDR as pure functions of their arguments
InitNetmask ==
    /\ pc = "args"
    /\ InitMatcherState
    /\ staticMappings = <<>>
    /\ InitMigrateLocals
    /\ netmaskIn \in NetmaskInputs
    /\ baseIn \in BaseInputs
    /\ prefixOut = <<>>
    /\ cidrOut = <<>>
    /\ InitReportState
    /\ InitMacState
    /\ InitMainState
    /\ InitParserState

NetmaskToCIDR ==
    /\ pc = "args"
    /\ prefixOut' = netmaskToCIDR(netmaskIn)
    /\ pc' = "converted"
    /\ UNCHANGED <<netmaskIn, baseIn, cidrOut, lastFind, validation>>
    /\ UNCHANGED matcherVars
    /\ UNCHANGED migrateVars
    /\ UNCHANGED <<reportVars, macVars, mainVars, parserVars>>

BuildCIDR ==
    /\ pc = "converted"
    /\ cidrOut' = buildCIDR(baseIn, netmaskIn)
    /\ pc' = "built"
    /\ UNCHANGED <<netmaskIn, baseIn, prefixOut, lastFind, validation>>
    /\ UNCHANGED matcherVars
    /\ UNCHANGED migrateVars
    /\ UNCHANGED <<reportVars, macVars, mainVars, parserVars>>

NextNetmask == NetmaskToCIDR \/ BuildCIDR

SpecNetmask == InitNetmask /\ [][NextNetmask]_vars

\* migrate on one mapping whose hardware address is any of MacInputs, its
\* address being inside the only subnet
InitMAC ==
    /\ pc = "mac"
    /\ LET built == buildSubnetMap(<<Subnet("u1", IP_10_0_0_0, Mask_8)>>, 1)
       IN  /\ subnets = built.subnets
           /\ subnetMetadata = built.subnetMetadata
    /\ subnetsIn = <<>>
    /\ lastFind = NoCall
    /\ macIn \in {<<mac>> : mac \in MacInputs}
    /\ macOut = <<>>
    /\ staticMappings = <<[mac |-> macIn[1], ipaddr |-> IP_10_0_0_5]>>
    /\ InitMigrateLocals
    /\ InitPureState
    /\ InitReportState
    /\ InitMainState
    /\ InitParserState

\* this.isValidMAC(mapping.mac)
IsValidMAC ==
    /\ pc = "mac"
    /\ macOut' = <<isValidMAC(macIn[1])>>
    /\ pc' = "migrating"
    /\ UNCHANGED <<macIn, lastFind, validation>>
    /\ UNCHANGED matcherVars
    /\ UNCHANGED migrateVars
    /\ UNCHANGED pureVars
    /\ UNCHANGED <<reportVars, mainVars, parserVars>>

\* new DHCPMigrator(list): builds the matcher; the list itself is not kept
NewDHCPMigrator(list) ==
    LET built == buildSubnetMap(list, Len(list))
    IN  /\ subnets = built.subnets
        /\ subnetMetadata = built.subnetMetadata

\* the caller has parsed the static mappings and constructed the migrator
InitMigration ==
    /\ pc = "ready"
    /\ \E list \in ListsOver(DeployedPool, MaxSubnets) : NewDHCPMigrator(list)
    /\ subnetsIn = <<>>
    /\ lastFind = NoCall
    /\ staticMappings \in ListsOver(MappingPool, MaxMappings)
    /\ InitMigrateLocals
    /\ InitPureState
    /\ InitReportState
    /\ InitMacState
    /\ InitMainState
    /\ InitParserState

\* ValidateMigration looking at the first mapping only
ValidateMigrationOfFirst ==
    /\ pc = "ready"
    /\ validation' = <<validateMigration(SubSeq(staticMappings, 1, Min(1, Len(staticMappings))))>>
    /\ pc' = "validated"
    /\ UNCHANGED <<lastFind>>
    /\ UNCHANGED matcherVars
    /\ UNCHANGED migrateVars
    /\ UNCHANGED pureVars
    /\ UNCHANGED <<reportVars, macVars, mainVars, parserVars>>

\* migrator.validateMigration(staticMappings)
ValidateMigration ==
    /\ pc = "ready"
    /\ validation' = <<validateMigration(staticMappings)>>
    /\ pc' = "validated"
    /\ UNCHANGED <<lastFind>>
    /\ UNCHANGED matcherVars
    /\ UNCHANGED migrateVars
    /\ UNCHANGED pureVars
    /\ UNCHANGED <<reportVars, macVars, mainVars, parserVars>>

\* migrate, lines 20-29: the four empty arrays
MigrateBegin ==
    /\ pc = "validated"
    /\ reservations' = <<>>
    /\ unmatchedIPs' = <<>>
    /\ warnings' = <<>>
    /\ errors' = <<>>
    /\ i' = 1
    /\ pc' = "migrating"
    /\ UNCHANGED <<staticMappings, uuidCounter, result, outputDoc, lastFind, validation>>
    /\ UNCHANGED matcherVars
    /\ UNCHANGED pureVars
    /\ UNCHANGED <<reportVars, macVars, mainVars, parserVars>>

\* MigrateStep taking the mappings off the front of the caller's list
MigrateStepShifting ==
    /\ pc = "migrating"
    /\ i <= Len(staticMappings)
    /\ LET after == MigrateOne([reservations |-> reservations, unmatchedIPs |-> unmatchedIPs,
                                warnings |-> warnings, errors |-> errors,
                                uuidCounter |-> uuidCounter], i, staticMappings[i])
       IN  /\ reservations' = after.reservations
           /\ unmatchedIPs' = after.unmatchedIPs
           /\ warnings' = after.warnings
           /\ errors' = after.errors
           /\ uuidCounter' = after.uuidCounter
    /\ staticMappings' = [k \in 1..(Len(staticMappings) - i) |-> staticMappings[k + i]]
    /\ i' = 1
    /\ UNCHANGED <<pc, result, outputDoc, lastFind, validation>>
    /\ UNCHANGED matcherVars
    /\ UNCHANGED pureVars
    /\ UNCHANGED <<reportVars, macVars, mainVars, parserVars>>

\* migrate, lines 30-94: one pass of the loop
MigrateStep ==
    /\ pc = "migrating"
    /\ i <= Len(staticMappings)
    /\ LET after == MigrateOne([reservations |-> reservations, unmatchedIPs |-> unmatchedIPs,
                                warnings |-> warnings, errors |-> errors,
                                uuidCounter |-> uuidCounter], i, staticMappings[i])
       IN  /\ reservations' = after.reservations
           /\ unmatchedIPs' = after.unmatchedIPs
           /\ warnings' = after.warnings
           /\ errors' = after.errors
           /\ uuidCounter' = after.uuidCounter
    /\ i' = i + 1
    /\ UNCHANGED <<pc, staticMappings, result, outputDoc, lastFind, validation>>
    /\ UNCHANGED matcherVars
    /\ UNCHANGED pureVars
    /\ UNCHANGED <<reportVars, macVars, mainVars, parserVars>>

\* migrate, lines 96-102: the result
MigrateReturn ==
    /\ pc = "migrating"
    /\ i > Len(staticMappings)
    /\ result' = <<[reservations |-> reservations,
                    reservationsCreated |-> Len(reservations),
                    unmatchedIPs |-> unmatchedIPs,
                    warnings |-> warnings,
                    errors |-> errors]>>
    /\ pc' = "done"
    /\ UNCHANGED <<staticMappings, i, reservations, unmatchedIPs, warnings, errors,
                   uuidCounter, outputDoc, lastFind, validation>>
    /\ UNCHANGED matcherVars
    /\ UNCHANGED pureVars
    /\ UNCHANGED <<reportVars, macVars, mainVars, parserVars>>

\* migrator.generateReport(staticMappings, result), which calls getStats
GenerateReport ==
    /\ pc = "done"
    /\ stats' = <<getStats(staticMappings, result[1])>>
    /\ report' = <<generateReport(staticMappings, result[1])>>
    /\ pc' = "reported"
    /\ UNCHANGED <<lastFind, validation>>
    /\ UNCHANGED matcherVars
    /\ UNCHANGED migrateVars
    /\ UNCHANGED pureVars
    /\ UNCHANGED <<macVars, mainVars, parserVars>>

\* parser.injectReservations(xmlContent, list)
InjectReservations(list) ==
    /\ pc = "reported"
    /\ outputDoc' = <<injectReservations(list)>>
    /\ pc' = "written"
    /\ UNCHANGED <<staticMappings, i, reservations, unmatchedIPs, warnings, errors,
                   uuidCounter, result, lastFind, validation>>
    /\ UNCHANGED matcherVars
    /\ UNCHANGED pureVars
    /\ UNCHANGED <<reportVars, macVars, mainVars, parserVars>>

\* what a caller passes to injectReservations: the reservations migrate
\* returned (index.ts 161), or a list of its own
InjectInputs ==
    (IF result = NoCall THEN {} ELSE {result[1].reservations})
        \cup {HandMadeReservations}

Next ==
    \/ ValidateMigration
    \/ MigrateBegin
    \/ MigrateStep
    \/ MigrateReturn
    \/ GenerateReport
    \/ \E list \in InjectInputs : InjectReservations(list)

\* one run on a constructed migrator: validate, migrate, write
Spec == InitMigration /\ [][Next]_vars

NextMAC == IsValidMAC \/ MigrateStep \/ MigrateReturn

\* the MAC check on its own, then migrate on the mapping that carries the address
SpecMAC == InitMAC /\ [][NextMAC]_vars

\* the parser on its own: a parsed document and a reservation list
InitParser ==
    /\ pc = "parser"
    /\ InitMatcherState
    /\ staticMappings = <<>>
    /\ InitMigrateLocals
    /\ InitPureState
    /\ InitReportState
    /\ InitMacState
    /\ InitMainState
    /\ xmlContent \in ParserDocuments
    /\ parsedSubnets = <<>>
    /\ reservationsIn \in InjectLists
    /\ xmlOutput = <<>>

\* parser.parseConfig(xmlContent)
ParseConfig ==
    /\ pc = "parser"
    /\ LET parsed == parseConfig(xmlContent)
       IN  /\ staticMappings' = parsed.staticMappings
           /\ parsedSubnets' = <<parsed.subnets>>
    /\ pc' = "parsed"
    /\ UNCHANGED <<i, reservations, unmatchedIPs, warnings, errors, uuidCounter, result,
                   outputDoc, lastFind, validation>>
    /\ UNCHANGED <<xmlContent, reservationsIn, xmlOutput>>
    /\ UNCHANGED matcherVars
    /\ UNCHANGED pureVars
    /\ UNCHANGED <<reportVars, macVars, mainVars>>

\* parser.injectReservations(xmlContent, reservationsIn): returns or throws
InjectIntoDocument ==
    /\ pc = "parsed"
    /\ xmlOutput' = injectReservationsInto(xmlContent, reservationsIn)
    /\ pc' = IF xmlOutput' = <<>> THEN "thrown" ELSE "injected"
    /\ UNCHANGED <<lastFind, validation>>
    /\ UNCHANGED <<xmlContent, parsedSubnets, reservationsIn>>
    /\ UNCHANGED matcherVars
    /\ UNCHANGED migrateVars
    /\ UNCHANGED pureVars
    /\ UNCHANGED <<reportVars, macVars, mainVars>>

\* parser.injectReservations(<the text returned by the first call>, reservationsIn)
InjectAgain ==
    /\ pc = "injected"
    /\ xmlOutput' = injectReservationsInto(Reparse(xmlOutput[1])[1], reservationsIn)
    /\ pc' = IF xmlOutput' = <<>> THEN "thrown" ELSE "reinjected"
    /\ UNCHANGED <<lastFind, validation>>
    /\ UNCHANGED <<xmlContent, parsedSubnets, reservationsIn>>
    /\ UNCHANGED matcherVars
    /\ UNCHANGED migrateVars
    /\ UNCHANGED pureVars
    /\ UNCHANGED <<reportVars, macVars, mainVars>>

NextParser == ParseConfig \/ InjectIntoDocument \/ InjectAgain

SpecParser == InitParser /\ [][NextParser]_vars

----------------------------------------------------------------------------
(* The command line run: main of index.ts *)

InitMain ==
    /\ pc = "main"
    /\ InitMatcherState
    /\ staticMappings = <<>>
    /\ InitMigrateLocals
    /\ InitPureState
    /\ InitReportState
    /\ InitMacState
    /\ InitParserState
    /\ argv \in ArgvInputs
    /\ config = <<>>
    /\ inputFile \in InputFiles
    /\ written = <<>>
    /\ exitCode = <<>>

\* process.exit(1) at one of the early stops of main
Stop ==
    /\ exitCode' = <<1>>
    /\ pc' = "stopped"

\* main, lines 83-86: parseArgs and the stop on null
MainParseArgs ==
    /\ pc = "main"
    /\ config' = parseArgs(argv)
    /\ IF config' = <<>> THEN Stop ELSE pc' = "configured" /\ exitCode' = exitCode
    /\ UNCHANGED <<argv, inputFile, written>>
    /\ UNCHANGED <<lastFind, validation>>
    /\ UNCHANGED <<matcherVars, migrateVars, pureVars, reportVars, macVars, parserVars>>

\* another process removes the input file, or makes it unreadable, while
\* main is suspended at an await (index.ts 96, 101, 162); a file replaced by
\* another text is the run that starts with that text
InputFileRemoved ==
    /\ pc \in {"configured", "opened", "writing"}
    /\ inputFile.exists
    /\ inputFile' = MissingFile
    /\ UNCHANGED <<pc, argv, config, written, exitCode>>
    /\ UNCHANGED <<lastFind, validation>>
    /\ UNCHANGED <<matcherVars, migrateVars, pureVars, reportVars, macVars, parserVars>>

\* main, lines 94-99: `await inputFile.exists()` settles; stop when the file
\* is missing, else text() is called and main is suspended again
MainFileExists ==
    /\ pc = "configured"
    /\ IF ~inputFile.exists THEN Stop
       ELSE pc' = "opened" /\ exitCode' = exitCode
    /\ UNCHANGED <<argv, config, inputFile, written>>
    /\ UNCHANGED <<lastFind, validation>>
    /\ UNCHANGED <<matcherVars, migrateVars, pureVars, reportVars, macVars, parserVars>>

\* main, lines 101-106 and 178-184: `await inputFile.text()` settles: it
\* rejects when the file is no longer there, which ends the run in the catch
\* block; else the text is tested, and an empty or blank text stops the run
MainReadText ==
    /\ pc = "opened"
    /\ IF ~inputFile.exists
       THEN Stop /\ xmlContent' = xmlContent
       ELSE IF IsEmptyText(inputFile.text)
       THEN Stop /\ xmlContent' = inputFile.text
       ELSE pc' = "read" /\ exitCode' = exitCode /\ xmlContent' = inputFile.text
    /\ UNCHANGED <<argv, config, inputFile, written>>
    /\ UNCHANGED <<parsedSubnets, reservationsIn, xmlOutput>>
    /\ UNCHANGED <<lastFind, validation>>
    /\ UNCHANGED <<matcherVars, migrateVars, pureVars, reportVars, macVars>>

\* main, lines 109-115: validateXML and the stop on invalid XML
MainValidateXML ==
    /\ pc = "read"
    /\ IF ~validateXML(xmlContent).valid THEN Stop
       ELSE pc' = "xmlValid" /\ exitCode' = exitCode
    /\ UNCHANGED <<argv, config, inputFile, written>>
    /\ UNCHANGED <<lastFind, validation>>
    /\ UNCHANGED <<matcherVars, migrateVars, pureVars, reportVars, macVars, parserVars>>

\* main, lines 120-125: parseConfig and new DHCPMigrator(subnets)
MainParseConfig ==
    /\ pc = "xmlValid"
    /\ LET parsed == parseConfig(xmlContent)
           built  == buildSubnetMap(parsed.subnets, Len(parsed.subnets))
       IN  /\ staticMappings' = parsed.staticMappings
           /\ parsedSubnets' = <<parsed.subnets>>
           /\ subnets' = built.subnets
           /\ subnetMetadata' = built.subnetMetadata
    /\ pc' = "ready"
    /\ UNCHANGED <<i, reservations, unmatchedIPs, warnings, errors, uuidCounter, result,
                   outputDoc, lastFind, validation, subnetsIn>>
    /\ UNCHANGED <<xmlContent, reservationsIn, xmlOutput>>
    /\ UNCHANGED <<pureVars, reportVars, macVars, mainVars>>

\* main, lines 134-140: the stop when validateMigration said invalid
MainValidationFailed ==
    /\ pc = "validated"
    /\ ~validation[1].valid
    /\ Stop
    /\ UNCHANGED <<argv, config, inputFile, written>>
    /\ UNCHANGED <<lastFind, validation>>
    /\ UNCHANGED <<matcherVars, migrateVars, pureVars, reportVars, macVars, parserVars>>

\* main, line 145: migrate is called once validateMigration said valid
MainMigrate ==
    /\ validation # <<>> /\ validation[1].valid
    /\ MigrateBegin

\* main, lines 150-153: the stop when no reservation was created
MainNoReservations ==
    /\ pc = "reported"
    /\ result[1].reservationsCreated = 0
    /\ Stop
    /\ UNCHANGED <<argv, config, inputFile, written>>
    /\ UNCHANGED <<lastFind, validation>>
    /\ UNCHANGED <<matcherVars, migrateVars, pureVars, reportVars, macVars, parserVars>>

\* MainDryRun writing the output file as a run without --dry-run does
MainDryRunWriting ==
    /\ pc = "reported"
    /\ result[1].reservationsCreated # 0
    /\ config[1].dryRun
    /\ LET outputXML == injectReservationsInto(xmlContent, result[1].reservations)
       IN  /\ outputXML # <<>>
           /\ written' = Append(written, [file |-> config[1].outputFile,
                                          document |-> outputXML[1]])
    /\ pc' = "complete"
    /\ UNCHANGED <<argv, config, inputFile, exitCode>>
    /\ UNCHANGED <<lastFind, validation>>
    /\ UNCHANGED <<matcherVars, migrateVars, pureVars, reportVars, macVars, parserVars>>

\* main, lines 155-157: a dry run writes nothing
MainDryRun ==
    /\ pc = "reported"
    /\ result[1].reservationsCreated # 0
    /\ config[1].dryRun
    /\ pc' = "complete"
    /\ UNCHANGED mainVars
    /\ UNCHANGED <<lastFind, validation>>
    /\ UNCHANGED <<matcherVars, migrateVars, pureVars, reportVars, macVars, parserVars>>

\* main, lines 159-162 and 178-184: injectReservations builds the output
\* and Bun.write is called, which suspends main; an exception of
\* injectReservations ends the run in the catch block
MainInjectReservations ==
    /\ pc = "reported"
    /\ result[1].reservationsCreated # 0
    /\ ~config[1].dryRun
    /\ reservationsIn' = result[1].reservations
    /\ xmlOutput' = injectReservationsInto(xmlContent, result[1].reservations)
    /\ IF xmlOutput' = <<>> THEN Stop
       ELSE pc' = "writing" /\ exitCode' = exitCode
    /\ UNCHANGED <<argv, config, inputFile, written>>
    /\ UNCHANGED <<xmlContent, parsedSubnets>>
    /\ UNCHANGED <<lastFind, validation>>
    /\ UNCHANGED <<matcherVars, migrateVars, pureVars, reportVars, macVars>>

\* main, lines 162-164 and 178-184: `await Bun.write(...)` settles: the file
\* is written, or the write rejects and the run ends in the catch block.
\* When the output file is the input file, the write replaces the input
\* file, or creates it again, with the output built.
MainWriteSettles ==
    /\ pc = "writing"
    /\ \E writes \in BOOLEAN :
          IF writes
          THEN /\ written' = Append(written, [file |-> config[1].outputFile,
                                              document |-> xmlOutput[1]])
               /\ inputFile' = IF config[1].outputFile = config[1].inputFile
                               THEN [exists |-> TRUE, text |-> Reparse(xmlOutput[1])[1]]
                               ELSE inputFile
               /\ pc' = "complete"
               /\ exitCode' = exitCode
          ELSE /\ written' = written
               /\ inputFile' = inputFile
               /\ Stop
    /\ UNCHANGED <<argv, config>>
    /\ UNCHANGED <<lastFind, validation>>
    /\ UNCHANGED <<matcherVars, migrateVars, pureVars, reportVars, macVars, parserVars>>

\* MainExit with a non-zero code for warnings as for errors
MainExitOnWarnings ==
    /\ pc = "complete"
    /\ exitCode' = <<IF Len(result[1].errors) + Len(result[1].warnings) > 0 THEN 1 ELSE 0>>
    /\ pc' = "exited"
    /\ UNCHANGED <<argv, config, inputFile, written>>
    /\ UNCHANGED <<lastFind, validation>>
    /\ UNCHANGED <<matcherVars, migrateVars, pureVars, reportVars, macVars, parserVars>>

\* main, lines 176-177: the exit code of a run that went to the end
MainExit ==
    /\ pc = "complete"
    /\ exitCode' = <<IF Len(result[1].errors) > 0 THEN 1 ELSE 0>>
    /\ pc' = "exited"
    /\ UNCHANGED <<argv, config, inputFile, written>>
    /\ UNCHANGED <<lastFind, validation>>
    /\ UNCHANGED <<matcherVars, migrateVars, pureVars, reportVars, macVars, parserVars>>

NextMain ==
    \/ MainParseArgs
    \/ InputFileRemoved
    \/ MainFileExists
    \/ MainReadText
    \/ MainValidateXML
    \/ MainParseConfig
    \/ ValidateMigration
    \/ MainValidationFailed
    \/ MainMigrate
    \/ MigrateStep
    \/ MigrateReturn
    \/ GenerateReport
    \/ MainNoReservations
    \/ MainDryRun
    \/ MainInjectReservations
    \/ MainWriteSettles
    \/ MainExit

SpecMain == InitMain /\ [][NextMain]_vars

----------------------------------------------------------------------------
(* Vocabulary of the properties: the notions of the specification, written *)
(* on the 32 bits of an address rather than on its octets                  *)

RangeOf(f) == {f[k] : k \in DOMAIN f}

\* the 32 bits of an address, most significant first
Bits32(octets) == [b \in 1..32 |-> (octets[((b - 1) \div 8) + 1] \div Pow2(7 - ((b - 1) % 8))) % 2]

\* unsigned x <= y on two 32-bit values
BitsLeq(x, y) ==
    \/ x = y
    \/ \E b \in 1..32 : x[b] < y[b] /\ \A c \in 1..(b - 1) : x[c] = y[c]

\* network and broadcast address of base/prefix
NetworkAddress(base, prefix) ==
    LET bits == Bits32(base) IN [b \in 1..32 |-> IF b <= prefix THEN bits[b] ELSE 0]
BroadcastAddress(base, prefix) ==
    LET bits == Bits32(base) IN [b \in 1..32 |-> IF b <= prefix THEN bits[b] ELSE 1]

\* the closed interval [network address, broadcast address] contains the address
InClosedInterval(base, prefix, address) ==
    LET first == NetworkAddress(base, prefix)
        last  == BroadcastAddress(base, prefix)
        bits  == Bits32(address)
    IN  BitsLeq(first, bits) /\ BitsLeq(bits, last)

\* the dotted mask of k one-bits followed by 32-k zero-bits
ContiguousMask(k) ==
    [j \in 1..4 |-> IF k >= 8 * j THEN 255
                    ELSE IF k <= 8 * (j - 1) THEN 0
                    ELSE 256 - Pow2(8 * j - k)]

\* the prefix lengths a mask text stands for: at most one
PrefixesOf(netmask) ==
    IF IsDigits(netmask)
    THEN LET value == ParseInt(netmask) IN {k \in 0..32 : value = k}
    ELSE IF IsDottedQuadSyntax(netmask)
    THEN LET octets == IPv4(netmask) IN {k \in 0..32 : octets = ContiguousMask(k)}
    ELSE {}

\* a record the matcher has to keep: valid base address and valid mask
IsUsable(r) == IsValidIPv4String(r.subnet) /\ PrefixesOf(r.netmask) # {}

PrefixOfRecord(r) == CHOOSE k \in PrefixesOf(r.netmask) : TRUE

RecordContains(r, ipAddress) ==
    /\ IsValidIPv4String(r.subnet)
    /\ LET prefixes == PrefixesOf(r.netmask)
       IN  /\ prefixes # {}
           /\ InClosedInterval(IPv4(r.subnet), CHOOSE k \in prefixes : TRUE, IPv4(ipAddress))

\* id of the first usable record of the list whose interval contains the address
FirstContaining(list, ipAddress) ==
    LET hits == {j \in 1..Len(list) : RecordContains(list[j], ipAddress)}
    IN  IF hits = {} THEN <<>>
        ELSE <<list[CHOOSE j \in hits : \A h \in hits : j <= h].uuid>>

\* the usable records of the list carry pairwise distinct ids
UsableIdsDistinct(list) ==
    \A j, k \in 1..Len(list) :
        (j # k /\ IsUsable(list[j]) /\ IsUsable(list[k])) => list[j].uuid # list[k].uuid

----------------------------------------------------------------------------
(* Properties of the matcher *)

\* C1 as stated: for every list of subnets and every valid address A,
\* findSubnetForIP(A) is the id of the first retained subnet, in constructor
\* order, whose closed interval [network, broadcast] contains A, and null when
\* there is none.
C1_FirstMatchForEveryList ==
    \A call \in RangeOf(lastFind) :
        IsValidIPv4String(call.ip) => call.id = FirstContaining(subnetsIn, call.ip)

\* C1 amended: the same, for every list whose retained subnets have pairwise
\* distinct ids: findSubnetForIP(A) is the id of the first retained subnet, in
\* constructor order, whose closed interval contains A (both ends included),
\* and null when no retained range contains A.
C1_FirstMatchDistinctIds ==
    \A call \in RangeOf(lastFind) :
        (IsValidIPv4String(call.ip) /\ UsableIdsDistinct(subnetsIn))
            => call.id = FirstContaining(subnetsIn, call.ip)

\* two overlapping retained subnets with different ids, asked for the last
\* address of the second one: the first one is returned
C1_Witness ==
    /\ Len(subnetsIn) = 2
    /\ subnetsIn[1].uuid # subnetsIn[2].uuid
    /\ \E call \in RangeOf(lastFind) :
          /\ call.ip = IP_10_0_0_255
          /\ RecordContains(subnetsIn[1], call.ip)
          /\ RecordContains(subnetsIn[2], call.ip)
          /\ PrefixOfRecord(subnetsIn[2]) = 24
          /\ call.id = <<subnetsIn[1].uuid>>

\* C2: netmaskToCIDR returns k exactly for the mask of k one-bits followed by
\* 32-k zero-bits and null for every other mask (non-contiguous, or an octet
\* above 255); a subnet built with a rejected mask has no range, and one built
\* with an accepted mask contains the same addresses as base/k.
C2_NetmaskToCIDR ==
    LET octets == IPv4(netmaskIn)
        fits   == {k \in 0..32 : octets = ContiguousMask(k)}
    IN  /\ pc \in {"converted", "built"} =>
              /\ \A k \in 0..32 : (prefixOut = <<k>>) <=> (k \in fits)
              /\ (prefixOut = <<>>) <=> (fits = {})
        /\ pc = "built" =>
              /\ prefixOut = <<>> => cidrOut = <<>>
              /\ \A k \in 0..32 : prefixOut = <<k>> =>
                    LET byPrefix == buildCIDR(baseIn, NumToStr(k))
                    IN  /\ (cidrOut = <<>>) <=> (byPrefix = <<>>)
                        /\ cidrOut # <<>> =>
                              \A a \in ProbeIPs :
                                  /\ Contains(cidrOut[1], IPv4(a)) <=> Contains(byPrefix[1], IPv4(a))
                                  /\ Contains(cidrOut[1], IPv4(a))
                                        <=> InClosedInterval(IPv4(baseIn), k, IPv4(a))

\* 255.255.255.0 on a valid base: prefix 24 and a range
C2_Witness ==
    /\ pc = "built"
    /\ netmaskIn = Mask_255_255_255_0
    /\ prefixOut = <<24>>
    /\ cidrOut # <<>>

\* a non-contiguous mask on a valid base: rejected, no range
C2_WitnessRejected ==
    /\ pc = "built"
    /\ netmaskIn = Mask_255_0_255_0
    /\ IsValidIPv4String(baseIn)
    /\ prefixOut = <<>>
    /\ cidrOut = <<>>

\* C3 as stated: every unusable record is dropped (absent from getAllSubnets,
\* getSubnetInfo and findSubnetForIP) and every other record is retained.
C3_EveryUsableRecordRetained ==
    (pc = "ready" /\ lastFind = NoCall) =>
        \A j \in 1..Len(subnetsIn) :
            LET r == subnetsIn[j]
            IN  IF IsUsable(r)
                THEN r \in RangeOf(getAllSubnets) /\ getSubnetInfo(r.uuid) = <<r>>
                ELSE r \notin RangeOf(getAllSubnets) /\ getSubnetInfo(r.uuid) # <<r>>

\* the last usable record of the list with the id of record j
LastUsableWithId(list, uuid) ==
    LET same == {k \in 1..Len(list) : IsUsable(list[k]) /\ list[k].uuid = uuid}
    IN  list[CHOOSE k \in same : \A h \in same : h <= k]

\* C3 amended: right after construction from any list, every unusable record
\* is dropped (absent from getAllSubnets, getSubnetInfo and findSubnetForIP);
\* every other record is retained unless a later usable record of the list
\* has the same id, which then replaces it; a dropped record does not keep a
\* later record from being retained.
C3_UsableRecordsRetained ==
    (pc = "ready" /\ lastFind = NoCall) =>
        /\ \A j \in 1..Len(subnetsIn) :
            LET r == subnetsIn[j]
            IN  IF IsUsable(r)
                THEN /\ getSubnetInfo(r.uuid) = <<LastUsableWithId(subnetsIn, r.uuid)>>
                     /\ getCIDRRange(r.uuid) # <<>>
                     /\ LastUsableWithId(subnetsIn, r.uuid) \in RangeOf(getAllSubnets)
                ELSE /\ r \notin RangeOf(getAllSubnets)
                     /\ getSubnetInfo(r.uuid) # <<r>>
        /\ \A r \in RangeOf(getAllSubnets) :
              \E j \in 1..Len(subnetsIn) : subnetsIn[j] = r /\ IsUsable(r)
        /\ \A a \in IPPool : \A u \in RangeOf(findSubnetForIP(a)) :
              \E j \in 1..Len(subnetsIn) :
                  /\ subnetsIn[j].uuid = u
                  /\ RecordContains(subnetsIn[j], a)

\* a dropped record followed by a usable one: exactly the second is retained
C3_Witness ==
    /\ pc = "ready"
    /\ Len(subnetsIn) = 2
    /\ ~IsUsable(subnetsIn[1])
    /\ IsUsable(subnetsIn[2])
    /\ getAllSubnets = <<subnetsIn[2]>>

----------------------------------------------------------------------------
(* Properties of the migration *)

Last(seq) == seq[Len(seq)]

\* the sequence is the old one with exactly one entry pushed at its end
PushedOne(old, new) == Len(new) = Len(old) + 1 /\ SubSeq(new, 1, Len(old)) = old

\* number of entries a step added to a sequence
Added(old, new) == Len(new) - Len(old)

\* a pass of migrate's loop is taken in this step, for mapping staticMappings[i]
LoopPass == pc = "migrating" /\ i' = i + 1

\* C4 as stated: for a mapping with valid MAC and valid IP and for every id
\* value, if findSubnetForIP returns an id the pass adds exactly one
\* reservation with that id and the mapping's mac and ipaddr and no
\* diagnostic; if it returns null the pass adds no reservation, the IP to
\* unmatchedIPs and one warning.
C4_FoundIdYieldsReservation ==
    [][LoopPass =>
        LET mapping == staticMappings[i]
            found   == findSubnetForIP(mapping.ipaddr)
        IN  (mapping.mac # <<>> /\ isValidMAC(mapping.mac) /\ IsValidIPv4String(mapping.ipaddr)) =>
                IF found # <<>>
                THEN /\ PushedOne(reservations, reservations')
                     /\ Last(reservations').subnet = found[1]
                     /\ Last(reservations').hw_address = mapping.mac
                     /\ Last(reservations').ip_address = mapping.ipaddr
                     /\ UNCHANGED <<warnings, errors, unmatchedIPs>>
                ELSE /\ UNCHANGED <<reservations, errors>>
                     /\ unmatchedIPs' = Append(unmatchedIPs, mapping.ipaddr)
                     /\ PushedOne(warnings, warnings')
    ]_vars

\* C5: the checks are applied in the order missing field, MAC syntax, IP
\* syntax and stop at the first that fails: empty mac or ipaddr gives only a
\* warning; an invalid MAC gives only a warning, also when the IP is invalid
\* too; a valid MAC with an invalid IP gives only an error.
C5_ChecksInFixedOrder ==
    [][LoopPass =>
        LET mapping == staticMappings[i]
            onlyWarning == /\ PushedOne(warnings, warnings')
                           /\ UNCHANGED <<errors, unmatchedIPs, reservations>>
            onlyError   == /\ PushedOne(errors, errors')
                           /\ UNCHANGED <<warnings, unmatchedIPs, reservations>>
        IN  /\ (mapping.mac = <<>> \/ mapping.ipaddr = <<>>) =>
                  onlyWarning /\ Last(warnings').text = "Skipping mapping: Missing required fields"
            /\ (mapping.mac # <<>> /\ mapping.ipaddr # <<>> /\ ~isValidMAC(mapping.mac)) =>
                  onlyWarning /\ Last(warnings').text = "Invalid MAC address format"
            /\ (mapping.mac # <<>> /\ mapping.ipaddr # <<>> /\ isValidMAC(mapping.mac)
                    /\ ~IsValidIPv4String(mapping.ipaddr)) =>
                  onlyError /\ Last(errors').text = "Invalid IP address"
    ]_vars

\* a mapping whose MAC and IP are both invalid has been migrated: one warning, no error
C5_Witness ==
    /\ pc = "done"
    /\ Len(staticMappings) = 1
    /\ staticMappings[1].mac = BadMAC_nonhex
    /\ staticMappings[1].ipaddr = BadIP_256_1_1_1
    /\ Len(result[1].warnings) = 1
    /\ result[1].errors = <<>>
    /\ result[1].unmatchedIPs = <<>>

\* C6: every reservation's subnet is the id of a subnet the matcher retained
\* and the reservation's IP lies in that subnet's range.
C6_ReservationInRetainedSubnet ==
    \A list \in {reservations} \cup {r.reservations : r \in RangeOf(result)} :
        \A k \in 1..Len(list) :
            LET info == getSubnetInfo(list[k].subnet)
            IN  /\ info # <<>>
                /\ info[1].uuid = list[k].subnet
                /\ getCIDRRange(list[k].subnet) # <<>>
                /\ RecordContains(info[1], list[k].ip_address)

\* two reservations in two different retained subnets
C6_Witness ==
    /\ pc = "done"
    /\ Len(result[1].reservations) = 2
    /\ result[1].reservations[1].subnet # result[1].reservations[2].subnet
    /\ Len(getAllSubnets) = 2

\* the branch each of the first n mappings takes
RECURSIVE Outcomes(_)
Outcomes(n) ==
    IF n = 0 THEN <<>> ELSE Append(Outcomes(n - 1), Branch(staticMappings[n]))

\* the mappings among the first n whose outcome is one of the given branches
RECURSIVE Taking(_, _, _)
Taking(branches, outcomes, n) ==
    IF n = 0 THEN <<>>
    ELSE IF outcomes[n] \in branches
         THEN Append(Taking(branches, outcomes, n - 1), staticMappings[n])
         ELSE Taking(branches, outcomes, n - 1)

MacAndIP(seq) == [k \in 1..Len(seq) |-> <<seq[k].mac, seq[k].ipaddr>>]

\* C7: each of the four outputs is the subsequence of the input mappings that
\* ended that way, in input order, one entry per mapping: nothing is
\* reordered and nothing is deduplicated.
C7_OutputsInInputOrder ==
    pc \in {"migrating", "done", "reported", "written"} =>
        LET n == i - 1
            outcomes  == Outcomes(n)
            reserved  == Taking({"reservation"}, outcomes, n)
            warned    == Taking({"missing", "invalidMAC", "noSubnet"}, outcomes, n)
            failed    == Taking({"invalidIP"}, outcomes, n)
            unmatched == Taking({"noSubnet"}, outcomes, n)
        IN  /\ [k \in 1..Len(reservations) |->
                   <<reservations[k].hw_address, reservations[k].ip_address>>]
                 = MacAndIP(reserved)
            /\ [k \in 1..Len(warnings) |-> <<warnings[k].mac, warnings[k].ip>>]
                 = MacAndIP(warned)
            /\ [k \in 1..Len(errors) |-> <<errors[k].mac, errors[k].ip>>]
                 = MacAndIP(failed)
            /\ unmatchedIPs = [k \in 1..Len(unmatched) |-> unmatched[k].ipaddr]
            /\ pc \in {"done", "reported", "written"} =>
                  /\ n = Len(staticMappings)
                  /\ result[1].reservations = reservations
                  /\ result[1].warnings = warnings
                  /\ result[1].errors = errors
                  /\ result[1].unmatchedIPs = unmatchedIPs

\* two identical mappings give two reservations
C7_Witness ==
    /\ pc = "done"
    /\ Len(staticMappings) = 2
    /\ staticMappings[1] = staticMappings[2]
    /\ Len(result[1].reservations) = 2

\* the same for the unmatched list and the warnings
C7_WitnessUnmatched ==
    /\ pc = "done"
    /\ Len(staticMappings) = 2
    /\ staticMappings[1] = staticMappings[2]
    /\ Len(result[1].unmatchedIPs) = 2
    /\ result[1].unmatchedIPs[1] = result[1].unmatchedIPs[2]

\* C8 as stated: a mapping contributes at most one entry in total across
\* reservations, warnings, errors and the unmatched-IP list.
C8_AtMostOneEntryInTotal ==
    [][LoopPass =>
        Added(reservations, reservations') + Added(warnings, warnings')
            + Added(errors, errors') + Added(unmatchedIPs, unmatchedIPs') <= 1
    ]_vars

\* C8 amended: a mapping contributes at most one entry in total across
\* reservations, warnings and errors; a mapping for which no subnet is found
\* contributes, besides its warning, its IP to the unmatched-IP list (one
\* entry), and no other mapping adds to that list.
C8_AtMostOneReservationOrDiagnostic ==
    [][LoopPass =>
        /\ Added(reservations, reservations') + Added(warnings, warnings')
              + Added(errors, errors') <= 1
        /\ Added(reservations, reservations') >= 0
        /\ Added(warnings, warnings') >= 0
        /\ Added(errors, errors') >= 0
        /\ Added(unmatchedIPs, unmatchedIPs') \in {0, 1}
        /\ Added(unmatchedIPs, unmatchedIPs') = 1 =>
              /\ PushedOne(warnings, warnings')
              /\ Last(warnings').text = "No subnet found for IP"
              /\ Last(warnings').ip = Last(unmatchedIPs')
              /\ Last(unmatchedIPs') = staticMappings[i].ipaddr
    ]_vars

\* a mapping without a containing subnet has been migrated: its IP is in the
\* unmatched list and there is one warning
C8_Witness ==
    /\ pc = "done"
    /\ Len(staticMappings) = 1
    /\ subnets = <<>>
    /\ result[1].unmatchedIPs = <<staticMappings[1].ipaddr>>
    /\ Len(result[1].warnings) = 1
    /\ result[1].reservations = <<>>

\* no optional field of an entry is present with an empty value
NoEmptyOptional(entry) ==
    /\ "hostname" \in DOMAIN entry => entry.hostname # ""
    /\ "description" \in DOMAIN entry => entry.description # ""

\* an optional text of a mapping or of a reservation is set: present and not empty
IsSet(r, field) == field \in DOMAIN r /\ r[field] # ""

\* C9: a reservation built by migrate has a hostname iff the mapping's
\* hostname is non-empty (the same value), and a description iff the mapping's
\* description or descr is non-empty (description first); no reservation has
\* an empty hostname or description, and injectReservations writes the two
\* fields only when they are non-empty, for the reservations of migrate and
\* for a list that holds them empty.
C9_OptionalFieldsOnlyWhenSet ==
    [][/\ (LoopPass /\ reservations' # reservations) =>
            LET mapping == staticMappings[i]
                r       == Last(reservations')
            IN  /\ ("hostname" \in DOMAIN r) <=> IsSet(mapping, "hostname")
                /\ IsSet(mapping, "hostname") => r.hostname = mapping.hostname
                /\ ("description" \in DOMAIN r)
                      <=> (IsSet(mapping, "description") \/ IsSet(mapping, "descr"))
                /\ IsSet(mapping, "description") => r.description = mapping.description
                /\ (~IsSet(mapping, "description") /\ IsSet(mapping, "descr"))
                      => r.description = mapping.descr
                /\ NoEmptyOptional(r)
       /\ (pc = "reported" /\ pc' = "written") =>
            /\ outputDoc' # <<>>
            /\ \E list \in InjectInputs :
                /\ Len(outputDoc'[1]) = Len(list)
                /\ \A k \in 1..Len(list) :
                      LET r == list[k]
                          e == outputDoc'[1][k]
                      IN  /\ e.uuid = r.uuid /\ e.hw_address = r.hw_address
                          /\ ("hostname" \in DOMAIN e) <=> IsSet(r, "hostname")
                          /\ IsSet(r, "hostname") => e.hostname = r.hostname
                          /\ ("description" \in DOMAIN e) <=> IsSet(r, "description")
                          /\ IsSet(r, "description") => e.description = r.description
                          /\ NoEmptyOptional(e)
       /\ pc' = "written" => pc \in {"reported", "written"}
    ]_vars

\* a reservation from a mapping with empty hostname and description but a
\* descr, and one from a mapping with hostname, description and descr, have
\* been built; then injectReservations has written a list whose first
\* reservation holds an empty hostname and an empty description, without
\* the two fields, and whose second holds both, with them
C9_Witness ==
    /\ pc = "written"
    /\ Len(result[1].reservations) = 2
    /\ Len(staticMappings) = 2
    /\ staticMappings[1].ipaddr = IP_192_168_1_255
    /\ staticMappings[2].ipaddr = IP_10_0_0_5
    /\ DOMAIN result[1].reservations[1] = {"uuid", "subnet", "hw_address", "ip_address", "description"}
    /\ result[1].reservations[1].description = "old"
    /\ result[1].reservations[2].hostname = "host1"
    /\ result[1].reservations[2].description = "desc"
    /\ Len(outputDoc[1]) = 2
    /\ HandMadeReservations[1].hostname = "" /\ HandMadeReservations[1].description = ""
    /\ DOMAIN outputDoc[1][1] = {"uuid", "subnet", "hw_address", "ip_address"}
    /\ outputDoc[1][1].hw_address = HandMadeReservations[1].hw_address
    /\ outputDoc[1][2].hostname = "host" /\ outputDoc[1][2].description = "desc"

\* the reservations of migrate, one with a description only and one with
\* hostname and description, have been written with the same fields
C9_WitnessInject ==
    /\ pc = "written"
    /\ Len(result[1].reservations) = 2
    /\ outputDoc[1] = result[1].reservations
    /\ DOMAIN outputDoc[1][1] = {"uuid", "subnet", "hw_address", "ip_address", "description"}
    /\ "hostname" \in DOMAIN outputDoc[1][2]
    /\ outputDoc[1][2].hostname = "host1"

NoSubnetsIssue == "No Kea subnets found in configuration"
NoMappingsIssue == "No ISC DHCP static mappings found in configuration"
NoValidMappingsIssue == "No valid static mappings found (missing MAC or IP addresses)"

\* C10: validateMigration reports 'no subnets' iff the matcher retained no
\* subnet, 'no mappings' iff the list is empty, 'no valid mappings' iff the
\* list is non-empty and every mapping has an empty mac or ipaddr; the issues
\* are independent, valid is true iff there is no issue, and the call changes
\* neither the matcher nor the mappings.
C10_ValidateMigration ==
    [][(pc = "ready" /\ pc' = "validated") =>
        LET v == validation'[1]
        IN  /\ (NoSubnetsIssue \in RangeOf(v.issues)) <=> (subnets = <<>>)
            /\ (NoMappingsIssue \in RangeOf(v.issues)) <=> (staticMappings = <<>>)
            /\ (NoValidMappingsIssue \in RangeOf(v.issues))
                  <=> (/\ staticMappings # <<>>
                       /\ \A k \in 1..Len(staticMappings) :
                             staticMappings[k].mac = <<>> \/ staticMappings[k].ipaddr = <<>>)
            /\ RangeOf(v.issues) \subseteq {NoSubnetsIssue, NoMappingsIssue, NoValidMappingsIssue}
            /\ Len(v.issues) = Cardinality(RangeOf(v.issues))
            /\ v.valid <=> (v.issues = <<>>)
            /\ UNCHANGED <<subnets, subnetMetadata, staticMappings>>
    ]_vars

\* two issues reported together: every subnet was dropped and every mapping
\* lacks a field
C10_Witness ==
    /\ pc = "validated"
    /\ validation[1].issues = <<NoSubnetsIssue, NoValidMappingsIssue>>
    /\ ~validation[1].valid
    /\ Len(staticMappings) = 2

\* no issue at all
C10_WitnessValid ==
    /\ pc = "validated"
    /\ validation[1].valid
    /\ \E k \in 1..Len(staticMappings) : staticMappings[k].mac = <<>>

\* C11: getStats on the mapping list and the result of migrate on that list
\* returns the number of mappings, the number of subnets the matcher retained,
\* the number of reservations, failed = total - successful (never negative)
\* and the lengths of the unmatched, warning and error lists.
C11_GetStats ==
    stats # <<>> =>
        LET st == stats[1]
            r  == result[1]
        IN  /\ st.totalStaticMappings = Len(staticMappings)
            /\ st.totalSubnets = Cardinality({subnets[k].key : k \in 1..Len(subnets)})
            /\ st.successfulMigrations = Len(r.reservations)
            /\ st.failedMigrations = st.totalStaticMappings - st.successfulMigrations
            /\ st.failedMigrations >= 0
            /\ st.unmatchedIPs = Len(r.unmatchedIPs)
            /\ st.warnings = Len(r.warnings)
            /\ st.errors = Len(r.errors)
            /\ report[1][1].entries = <<st>>

\* statistics of a run with one reservation and one mapping that failed with
\* a warning, on a matcher that retained two subnets
C11_Witness ==
    /\ stats # <<>>
    /\ stats[1].totalSubnets = 2
    /\ stats[1].successfulMigrations = 1
    /\ stats[1].failedMigrations = 1
    /\ stats[1].warnings = 1
    /\ stats[1].errors = 0

\* six groups of two hex digits with the same separator between all of them
HexPair(s, k) == IsHexDigit(s[k]) /\ IsHexDigit(s[k + 1])

InSeparatedFormat(mac, sep) ==
    /\ Len(mac) = 17
    /\ \A g \in 0..5 : HexPair(mac, 3 * g + 1)
    /\ \A g \in 1..5 : mac[3 * g] = sep

InBareFormat(mac) == Len(mac) = 12 /\ \A g \in 0..5 : HexPair(mac, 2 * g + 1)

InDocumentedFormat(mac) ==
    InSeparatedFormat(mac, ":") \/ InSeparatedFormat(mac, "-") \/ InBareFormat(mac)

\* C12: the MAC check accepts exactly the colon-separated, the dash-separated
\* and the bare 12-digit format, in either case of the hex digits; a mapping
\* with any other hardware address is skipped with an invalid-MAC warning.
C12_ExactlyThreeFormats ==
    /\ macOut # <<>> => (macOut[1] <=> InDocumentedFormat(macIn[1]))
    /\ (pc = "done" /\ macIn # <<>> /\ ~InDocumentedFormat(macIn[1])) =>
          /\ result[1].reservations = <<>>
          /\ result[1].warnings = <<InvalidMACWarning(staticMappings[1])>>

\* addresses looked up before and after every call
MatcherProbes == {IP_10_0_0_5, IP_10_0_1_0, IP_192_168_1_255, BadIP_256_1_1_1}

\* C13: after construction no call (validateMigration, migrate with its
\* findSubnetForIP calls, getStats and generateReport with their getAllSubnets
\* and getSubnetInfo calls, injectReservations) changes the retained subnets
\* or their order, so findSubnetForIP on an address returns after the call
\* what it returned before it; and no call changes the mapping list.
C13_MatcherReadOnly ==
    [][/\ subnets' = subnets
       /\ subnetMetadata' = subnetMetadata
       /\ staticMappings' = staticMappings
       /\ \A ip \in MatcherProbes :
             findSubnetForIPIn(subnets', ip) = findSubnetForIPIn(subnets, ip)
    ]_vars

\* validate, migrate, report and inject have all run on a matcher with two
\* subnets, and migrate created a reservation
C13_Witness ==
    /\ pc = "written"
    /\ Len(subnets) = 2
    /\ validation # <<>>
    /\ report # <<>>
    /\ Len(result[1].reservations) >= 1
    /\ Len(staticMappings) = 2

\* the number of slashes in a text
SlashCount(text) == Cardinality({k \in 1..Len(text) : text[k] = "/"})

\* a <subnet4> element that has a uuid, as attribute or as child, and a
\* subnet text with exactly one slash
HasOneSlashAndUUID(e) ==
    /\ Has(e, "attr_uuid") \/ Has(e, "uuid")
    /\ "subnet" \in DOMAIN e
    /\ SlashCount(e.subnet) = 1

\* the record of such an element: the text before and after its slash
RecordOfElement(e) ==
    LET at == CHOOSE k \in 1..Len(e.subnet) : e.subnet[k] = "/"
    IN  [uuid    |-> IF Has(e, "attr_uuid") THEN e.attr_uuid ELSE e.uuid,
         subnet  |-> SubSeq(e.subnet, 1, at - 1),
         netmask |-> SubSeq(e.subnet, at + 1, Len(e.subnet))]

RecordsOfElements(list) ==
    LET kept == SelectSeq(list, HasOneSlashAndUUID)
    IN  [k \in 1..Len(kept) |-> RecordOfElement(kept[k])]

ShapesWithSubnets == {"standard", "bare", "lower"}
ShapesWithoutSection == {"noKea", "emptyKea", "noDhcp4"}

\* where a document of the shape has its <subnet4> elements
SubnetPath(shape) ==
    CASE shape = "standard" -> <<"opnsense", "OPNsense", "Kea", "dhcp4", "subnets", "subnet4">>
      [] shape = "bare"     -> <<"OPNsense", "Kea", "dhcp4", "subnets", "subnet4">>
      [] shape = "lower"    -> <<"opnsense", "kea", "Dhcp4", "subnets", "subnet4">>

\* the elements at the end of a path, in document order
RECURSIVE ElementsAt(_, _)
ElementsAt(opt, path) ==
    IF opt = <<>> THEN <<>>
    ELSE IF path = <<>> THEN AsArray(opt[1])
    ELSE ElementsAt(Get(opt[1], path[1]), Tail(path))

\* C16: parseSubnets returns, in document order, one record per <subnet4>
\* element that has a uuid and exactly one slash in its subnet text, with the
\* text before the slash as subnet and the text after it as netmask; other
\* elements are skipped and the elements after them are still parsed; a
\* document without a Kea, dhcp4 or subnets section gives the empty list.
C16_ParseSubnets ==
    parsedSubnets # <<>> =>
        /\ \A shape \in ShapesWithSubnets, node \in ReservationNodes \cup {<<>>} :
              LET list == ElementsAt(<<xmlContent>>, SubnetPath(shape))
              IN  xmlContent = Document(shape, SampleStaticmaps, Dhcp4Of(list, node))
                      => parsedSubnets[1] = RecordsOfElements(list)
        /\ \A shape \in ShapesWithoutSection :
              xmlContent = Document(shape, SampleStaticmaps, Dhcp4Of(<<>>, <<>>))
                  => parsedSubnets[1] = <<>>

\* an element without uuid and an element without slash are skipped and the
\* element between them is parsed
C16_Witness ==
    /\ pc = "parsed"
    /\ \E e \in Subnet4Pool, f \in Subnet4Pool :
          /\ ~HasOneSlashAndUUID(e)
          /\ HasOneSlashAndUUID(f)
          /\ xmlContent = Document("standard", SampleStaticmaps, Dhcp4Of(<<e, f>>, <<>>))
    /\ Len(parsedSubnets[1]) = 1
    /\ parsedSubnets[1][1].netmask = Mask_24

\* a document without a Kea section has been parsed
C16_WitnessNoSection ==
    /\ pc = "parsed"
    /\ xmlContent = Document("noKea", SampleStaticmaps, Dhcp4Of(<<>>, <<>>))
    /\ parsedSubnets = <<(<<>>)>>

\* the reservation entries read back from a document the builder has written
WrittenReservations(doc) ==
    LET back    == Reparse(doc)
        section == GetOpt(GetOpt(GetOpt(GetOpt(GetOpt(back, "opnsense"), "OPNsense"),
                                        "Kea"), "dhcp4"), "reservations")
        entries == GetOpt(section, "reservation")
    IN  IF entries = <<>> THEN <<>> ELSE AsArray(entries[1])

\* the written entry carries the fields of the reservation
SameReservation(entry, r) ==
    /\ entry.uuid = r.uuid
    /\ entry.subnet = r.subnet
    /\ entry.hw_address = r.hw_address
    /\ entry.ip_address = r.ip_address
    /\ IsSet(r, "hostname") => "hostname" \in DOMAIN entry /\ entry.hostname = r.hostname
    /\ IsSet(r, "description") =>
           "description" \in DOMAIN entry /\ entry.description = r.description

\* C15: the reservation list injectReservations writes into the output
\* document equals the list it was given: as many entries, in the same order,
\* each with the same uuid, subnet id, hw_address and ip_address, and with
\* the hostname and the description whenever they are set.
C15_InjectPreservesList ==
    pc \in {"injected", "reinjected"} =>
        LET out == WrittenReservations(xmlOutput[1])
        IN  /\ Len(out) = Len(reservationsIn)
            /\ \A k \in 1..Len(out) : SameReservation(out[k], reservationsIn[k])

\* two different reservations, the second with hostname and description,
\* have been written into a document that already held reservations
C15_Witness ==
    /\ pc = "injected"
    /\ Len(reservationsIn) = 2
    /\ reservationsIn[1].hw_address # reservationsIn[2].hw_address
    /\ IsSet(reservationsIn[2], "hostname") /\ IsSet(reservationsIn[2], "description")
    /\ ~IsSet(reservationsIn[1], "hostname")
    /\ WrittenReservations(xmlContent) # <<>>
    /\ Len(WrittenReservations(xmlOutput[1])) = 2

\* the path of the <reservation> entries that injectReservations writes
ReservationPath == <<"opnsense", "OPNsense", "Kea", "dhcp4", "reservations", "reservation">>

\* the <reservations> element read back from a document the builder has written
WrittenSection(doc) ==
    GetOpt(GetOpt(GetOpt(GetOpt(GetOpt(Reparse(doc), "opnsense"), "OPNsense"),
                         "Kea"), "dhcp4"), "reservations")

\* the document after has the children and the other fields the document
\* before had, but for the element at the end of the path; an element of the
\* path that was missing or empty before counts as an element without children
RECURSIVE UnchangedOffPath(_, _, _)
UnchangedOffPath(before, after, path) ==
    IF path = <<>> THEN TRUE
    ELSE LET old == IF IsTruthyNode(before) THEN before[1] ELSE EmptyObject
         IN  /\ after.kind = "obj"
             /\ DOMAIN after \ {path[1]} = DOMAIN old \ {path[1]}
             /\ \A k \in DOMAIN old \ {path[1]} : after[k] = old[k]
             /\ path[1] \in DOMAIN after
             /\ UnchangedOffPath(Get(old, path[1]), after[path[1]], Tail(path))

\* the Kea section that parseSubnets reads is the one injectReservations writes to
KeaOnReservationPath(doc) ==
    IsTruthyNode(GetOpt(GetOpt(Get(doc, "opnsense"), "OPNsense"), "Kea"))

\* C20: injectReservations replaces the reservation entries: an entry that
\* the input document held under opnsense/OPNsense/Kea/dhcp4/reservations is
\* in the output only if it is in the list passed in; every other part of
\* the parsed document is unchanged, so that the static mappings read from
\* the output are those read from the input, and so are the subnets; and a
\* second call with the same list on the output of the first gives the same
\* reservation section.
C20_InjectReplaces ==
    [][ /\ pc' = "injected" =>
              /\ \A k \in 1..Len(WrittenReservations(xmlContent')) :
                    LET e == WrittenReservations(xmlContent')[k]
                    IN  (\E j \in 1..Len(WrittenReservations(xmlOutput'[1])) :
                             WrittenReservations(xmlOutput'[1])[j] = e)
                        => \E j \in 1..Len(reservationsIn') :
                               /\ SameReservation(e, reservationsIn'[j])
                               /\ IsSet(reservationsIn'[j], "hostname") = ("hostname" \in DOMAIN e)
              /\ UnchangedOffPath(<<xmlContent'>>, xmlOutput'[1], ReservationPath)
              /\ parseStaticMappings(Reparse(xmlOutput'[1])[1]) = staticMappings'
              /\ KeaOnReservationPath(xmlContent')
                    => parseSubnets(Reparse(xmlOutput'[1])[1]) = parsedSubnets'[1]
        /\ pc = "injected" =>
              /\ pc' = "reinjected"
              /\ WrittenSection(xmlOutput'[1]) = WrittenSection(xmlOutput[1])
      ]_vars

\* a document that held a subnet and two reservations beside another child
\* of <reservations> has been injected twice with a list that has none of
\* the two
C20_Witness ==
    /\ pc = "reinjected"
    /\ Len(parsedSubnets[1]) = 1
    /\ Len(WrittenReservations(xmlContent)) = 2
    /\ Len(reservationsIn) = 1
    /\ Len(WrittenReservations(xmlOutput[1])) = 1
    /\ IsTruthyNode(GetOpt(WrittenSection(xmlOutput[1]), "attr_persisted"))
    /\ staticMappings # <<>>

\* C18: migrate accounts for every mapping exactly once and never aborts
\* the batch: after i - 1 passes of the loop the reservations, warnings and
\* errors number i - 1 together, the loop ends only after the last mapping,
\* and the result has reservations + warnings + errors = mappings,
\* reservationsCreated = the number of reservations and no more unmatched
\* addresses than warnings; getStats' failedMigrations is then warnings + errors.
C18_EveryMappingAccounted ==
    /\ pc = "migrating" =>
          /\ i \in 1..(Len(staticMappings) + 1)
          /\ Len(reservations) + Len(warnings) + Len(errors) = i - 1
          /\ Len(unmatchedIPs) <= Len(warnings)
    /\ result # <<>> =>
          LET r == result[1]
          IN  /\ Len(r.reservations) + Len(r.warnings) + Len(r.errors) = Len(staticMappings)
              /\ r.reservationsCreated = Len(r.reservations)
              /\ Len(r.unmatchedIPs) <= Len(r.warnings)
              /\ stats # <<>> =>
                    stats[1].failedMigrations = Len(r.warnings) + Len(r.errors)

\* a batch whose first mapping gave an error and whose second gave a
\* reservation has been reported
C18_Witness ==
    /\ pc = "reported"
    /\ Len(staticMappings) = 2
    /\ Branch(staticMappings[1]) = "invalidIP"
    /\ Len(result[1].errors) = 1
    /\ Len(result[1].reservations) = 1
    /\ stats[1].failedMigrations = 1

\* C19: whenever validateMigration returned valid = false for the mappings,
\* migrate on the same migrator and mappings creates no reservation, at the
\* end and at every pass of the loop.
C19_InvalidGivesNoReservation ==
    (validation # <<>> /\ ~validation[1].valid) =>
        /\ pc = "migrating" => reservations = <<>>
        /\ result # <<>> =>
              /\ result[1].reservations = <<>>
              /\ result[1].reservationsCreated = 0

\* mappings with MAC and IP have been migrated on a migrator without
\* subnets: the check said invalid and every mapping was accounted elsewhere
C19_Witness ==
    /\ pc = "done"
    /\ ~validation[1].valid
    /\ Len(staticMappings) = 2
    /\ \A k \in 1..2 : staticMappings[k].mac # <<>> /\ staticMappings[k].ipaddr # <<>>
    /\ result[1].reservationsCreated = 0
    /\ Len(result[1].warnings) + Len(result[1].errors) = 2

\* the converse fails: the check said valid and migrate created no reservation
C19_WitnessValidWithoutReservation ==
    /\ pc = "done"
    /\ validation[1].valid
    /\ result[1].reservationsCreated = 0

\* --dry-run or -d is among the arguments
DryRunRequested == Includes(argv, Arg_d) \/ Includes(argv, Arg_dry_run)

\* C14: in the command line run the output file is written at most once, and
\* only when, earlier in the run, the input file existed when exists()
\* settled and held a text that is not empty when text() settled,
\* validateXML passed on that text, validateMigration said valid, migrate
\* created a reservation and no dry run was asked for; in a dry run no file
\* is written, whatever the input.
C14_WriteOnlyAfterChecks ==
    [][ /\ Len(written') <= 1
        /\ pc' = "opened" => pc = "opened" \/ (pc = "configured" /\ inputFile.exists)
        /\ pc' = "read" =>
              \/ pc = "read"
              \/ /\ pc = "opened"
                 /\ inputFile.exists
                 /\ ~IsEmptyText(inputFile.text)
                 /\ xmlContent' = inputFile.text
        /\ pc \notin {"parser", "opened"} => xmlContent' = xmlContent
        /\ written' # written =>
              /\ written = <<>>
              /\ pc \notin {"main", "configured", "opened"}
              /\ ~IsEmptyText(xmlContent)
              /\ validateXML(xmlContent).valid
              /\ validation # <<>> /\ validation[1].valid
              /\ result # <<>> /\ result[1].reservationsCreated >= 1
              /\ ~DryRunRequested
              /\ written'[1].file = config[1].outputFile
        /\ DryRunRequested' => written' = <<>>
      ]_vars

\* a run without --dry-run has written its output file and exited, the input
\* file having been removed after it was read
C14_Witness ==
    /\ pc = "exited"
    /\ ~inputFile.exists
    /\ Len(written) = 1
    /\ ~DryRunRequested
    /\ Len(WrittenReservations(written[1].document)) = result[1].reservationsCreated

\* a dry run went to the end with reservations and wrote nothing
C14_WitnessDryRun ==
    /\ pc = "exited"
    /\ DryRunRequested
    /\ result[1].reservationsCreated >= 1
    /\ written = <<>>

\* the run got past migration with at least one reservation
PastMigration == result # <<>> /\ result[1].reservationsCreated >= 1

\* C17 as stated: a run that got past migration with at least one
\* reservation exits with 1 iff the result has an error and with 0 otherwise,
\* whatever the warnings, the unmatched addresses and the dry-run option, and
\* without dry run the output file is written before a non-zero exit; every
\* other run exits with 1.
C17_ExitCodeByErrors ==
    exitCode # <<>> =>
        IF PastMigration
        THEN /\ exitCode[1] = IF Len(result[1].errors) >= 1 THEN 1 ELSE 0
             /\ (exitCode[1] # 0 /\ ~config[1].dryRun) => written # <<>>
        ELSE exitCode[1] = 1

\* C17, amended: a run that got past migration with at least one reservation
\* and, unless it is a dry run, has written the output file, exits at the end
\* of main with 1 iff the result has an error and with 0 otherwise, whatever
\* the warnings, the unmatched addresses and the dry-run option; every run
\* that stops before, an exception of the read, of injectReservations or of
\* the write included, exits with 1 and has written nothing.
C17_ExitCodeByErrorsUnlessThrown ==
    /\ exitCode # <<>> => pc \in {"exited", "stopped"}
    /\ pc = "exited" =>
          /\ PastMigration
          /\ exitCode = <<IF Len(result[1].errors) >= 1 THEN 1 ELSE 0>>
          /\ ~config[1].dryRun => Len(written) = 1
    /\ pc = "stopped" =>
          /\ exitCode = <<1>>
          /\ written = <<>>
          /\ PastMigration => ~config[1].dryRun
    /\ (PastMigration /\ (config[1].dryRun \/ written # <<>>)) => pc # "stopped"

\* a run with an error and a reservation has written the file and exited with 1
C17_Witness ==
    /\ pc = "exited"
    /\ exitCode = <<1>>
    /\ Len(result[1].errors) = 1
    /\ result[1].reservationsCreated = 1
    /\ Len(written) = 1

\* a run with a warning, an unmatched address and no error has exited with 0
C17_WitnessWarningsOnly ==
    /\ pc = "exited"
    /\ exitCode = <<0>>
    /\ Len(result[1].warnings) >= 1
    /\ Len(result[1].unmatchedIPs) >= 1

\* a run without error has created reservations and exited with 1, because
\* injectReservations threw on the document
C17_WitnessThrown ==
    /\ pc = "stopped"
    /\ PastMigration
    /\ result[1].errors = <<>>
    /\ xmlOutput = <<>> /\ reservationsIn # <<>>

\* the file was there when exists() settled and gone when text() settled:
\* the run ended in the catch block
C17_WitnessReadThrown ==
    /\ pc = "stopped"
    /\ ~inputFile.exists
    /\ config # <<>>
    /\ argv = <<File_config>>

\* the output was written over the input file, which another process had
\* removed during the write: the file is there again and holds the
\* reservations
C14_WitnessInPlace ==
    /\ pc = "exited"
    /\ config[1].outputFile = config[1].inputFile
    /\ inputFile.exists
    /\ inputFile.text # xmlContent
    /\ Len(WrittenReservations(inputFile.text)) = result[1].reservationsCreated

====
